---- MODULE Spec2Model ----
(***************************************************************************)
(* A model of crust's recursive-descent C11 parser (src/src/parser.rs).    *)
(*                                                                         *)
(* Every grammar function p_xxx(toks, pos) of the source is an operator    *)
(* of the same name.  A call has one of three outcomes:                    *)
(*   kind = "ok"    : Ok((node, pos))                                      *)
(*   kind = "err"   : Err(message)                                         *)
(*   kind = "panic" : the Rust slice index toks[pos] was out of range      *)
(*                    (the thread unwinds; no if-let or ? catches it)   .  *)
(* Positions are the source's 0-based indices: token pos is toks[pos+1].   *)
(* A grammar function that calls other grammar functions takes a third     *)
(* argument m, the table of results already computed for this token        *)
(* sequence (see SubRule); Parse(which, toks, pos) is the call from        *)
(* outside.  The grammar functions are pure, so the variable results holds *)
(* what each of them returns at each position of toks.  The                *)
(* translation-unit loop and the driver are modelled step by step.         *)
(***************************************************************************)
EXTENDS Integers, Sequences, FiniteSets, TLC

VARIABLES toks, c_src_name, family, probes, pc, tu, rule, start, out, results

vars == <<toks, c_src_name, family, probes, pc, tu, rule, start, out, results>>

(***************************************************************************)
(* Tokens (lexer::TokType).  k is the variant, v its payload text          *)
(* (identifier name, constant lexeme, string text); "" when none.          *)
(***************************************************************************)
Tok(k) == [k |-> k, v |-> ""]
TokV(k, v) == [k |-> k, v |-> v]
NoTok == Tok("None")
Ident(name) == TokV("IDENTIFIER", name)
IConst(v) == TokV("IConstant", v)
FConst(v) == TokV("FConstant", v)
StrLit(v) == TokV("StringLiteral", v)

At(ts, pos) == ts[pos + 1]

(***************************************************************************)
(* Type expressions (symtable::TypeExpression, BaseType).                  *)
(***************************************************************************)
BT(name) == [b |-> name, n |-> 0, s |-> ""]
BTArray(len) == [b |-> "Array", n |-> len, s |-> ""]
BTIdentifier(name) == [b |-> "Identifier", n |-> 0, s |-> name]

TypeExpression_new == [val |-> <<>>, child |-> <<>>]
new_val(base) == [val |-> <<base>>, child |-> <<>>]

(***************************************************************************)
(* Parse nodes (ast::ParseNode, NodeType).  entry.t is the variant; tok,   *)
(* s and s2 carry its payload (operator token, name, value, flag).         *)
(***************************************************************************)
NT(t) == [t |-> t, tok |-> NoTok, s |-> "", s2 |-> ""]
NTTok(t, tok) == [t |-> t, tok |-> tok, s |-> "", s2 |-> ""]
NTStr(t, s, s2) == [t |-> t, tok |-> NoTok, s |-> s, s2 |-> s2]

ParseNode_new(entry) == [entry |-> entry, child |-> <<>>, type_exp |-> TypeExpression_new]

Push(node, c) == [node EXCEPT !.child = Append(@, c)]
SetType(node, t) == [node EXCEPT !.type_exp = t]
TypePushChild(node, t) == [node EXCEPT !.type_exp.child = Append(@, t)]
TypePushVal(node, base) == [node EXCEPT !.type_exp.val = Append(@, base)]
SetEntry(node, entry) == [node EXCEPT !.entry = entry]

NoNode ==
    [entry |-> [t |-> "None", tok |-> [k |-> "None", v |-> ""], s |-> "", s2 |-> ""],
     child |-> <<>>, type_exp |-> [val |-> <<>>, child |-> <<>>]]

(***************************************************************************)
(* Result<(ParseNode, usize), String>, plus the panic outcome.             *)
(***************************************************************************)
Ok(node, pos) == [kind |-> "ok", node |-> node, pos |-> pos, msg |-> ""]
Err(msg) == [kind |-> "err", node |-> NoNode, pos |-> 0, msg |-> msg]
Panic == [kind |-> "panic", node |-> NoNode, pos |-> 0, msg |-> "index out of bounds"]
OkUnit == Ok(NoNode, 0)

IsOk(r) == r.kind = "ok"
IsErr(r) == r.kind = "err"
IsPanic(r) == r.kind = "panic"

\* error_handler: the message names what was expected; toks[pos] is read by the caller.
error_handler(expect) == Err("Expected " \o expect)

check_pos(pos, toks_len) ==
    IF pos >= toks_len THEN Err("out of token index") ELSE OkUnit

check_tok(pos, ts, expect) ==
    IF pos >= Len(ts) THEN Err("out of token index")
    ELSE IF At(ts, pos) # expect THEN Err("Expected: token")
    ELSE OkUnit

\* error_handler(.., &toks[pos], pos) where pos may be past the end: the index panics.
error_handler_at(expect, ts, pos) ==
    IF pos >= Len(ts) THEN Panic ELSE error_handler(expect)

(***************************************************************************)
(* The Type Oracle (crate::sema).  Its code is not part of src/; it is     *)
(* modelled from the specification's call contract: C's usual arithmetic   *)
(* conversions, scalar cast legality, structural type equality.  A         *)
(* named-identifier placeholder stands for a type not yet resolved and is  *)
(* accepted wherever a scalar is.                                          *)
(***************************************************************************)
IntegerBases == {"Bool", "Char", "Short", "Int", "Long", "Signed", "Unsigned", "SizeT"}
FloatBases == {"Float", "Double"}

Rank(b) ==
    CASE b = "Bool" -> 1 [] b = "Char" -> 2 [] b = "Short" -> 3 [] b = "Int" -> 4
      [] b = "Signed" -> 4 [] b = "Unsigned" -> 5 [] b = "Long" -> 6 [] b = "SizeT" -> 7
      [] b = "Float" -> 8 [] b = "Double" -> 9 [] OTHER -> 0

IsFlat(t) == t.child = <<>> /\ Len(t.val) = 1
IsPlaceholder(t) == IsFlat(t) /\ t.val[1].b = "Identifier"
IsIntegerType(t) == IsFlat(t) /\ t.val[1].b \in IntegerBases
IsArithmeticType(t) == IsFlat(t) /\ t.val[1].b \in (IntegerBases \cup FloatBases)
IsScalarLike(t) == IsArithmeticType(t) \/ IsPlaceholder(t)

Wider(l, r) == IF Rank(r.val[1].b) > Rank(l.val[1].b) THEN r ELSE l

ComparisonOps == {"Lt", "Gt", "LeOp", "GeOp", "EqOp", "NeOp", "AndOp", "OrOp"}
IntegerOnlyOps == {"Mod", "LeftOp", "RightOp", "SingleAnd", "ExclusiveOr", "InclusiveOr"}

\* sema::judge_type_same(a, b) -> bool
judge_type_same(a, b) == a = b \/ IsPlaceholder(a) \/ IsPlaceholder(b)

\* sema::judge_cast(to, from) -> bool
judge_cast(to, from) == IsScalarLike(to) /\ IsScalarLike(from)

\* sema::judge_combine_type(l, r, op) -> (bool, TypeExpression)
judge_combine_type(l, r, op) ==
    IF ~(IsScalarLike(l) /\ IsScalarLike(r)) THEN [accepted |-> FALSE, type |-> TypeExpression_new]
    ELSE IF op.k \in IntegerOnlyOps /\ ~((IsIntegerType(l) \/ IsPlaceholder(l)) /\ (IsIntegerType(r) \/ IsPlaceholder(r)))
         THEN [accepted |-> FALSE, type |-> TypeExpression_new]
    ELSE IF op.k \in ComparisonOps THEN [accepted |-> TRUE, type |-> new_val(BT("Int"))]
    ELSE IF IsPlaceholder(l) THEN [accepted |-> TRUE, type |-> r]
    ELSE IF IsPlaceholder(r) THEN [accepted |-> TRUE, type |-> l]
    ELSE [accepted |-> TRUE, type |-> Wider(l, r)]

\* sema::implicit_type_cast(l, r) -> Result<TypeExpression, String>
implicit_type_cast(l, r) ==
    IF ~(IsScalarLike(l) /\ IsScalarLike(r)) THEN [accepted |-> FALSE, type |-> TypeExpression_new]
    ELSE IF IsPlaceholder(l) THEN [accepted |-> TRUE, type |-> r]
    ELSE [accepted |-> TRUE, type |-> l]

(***************************************************************************)
(* Idioms shared by the grammar functions.                                 *)
(***************************************************************************)
\* cur_node.type_exp = child.type_exp.clone(); cur_node.child.push(child)
Adopt(cur, c) == Push(SetType(cur, c.type_exp), c)
\* cur_node.type_exp.child.push(child.type_exp.clone()); cur_node.child.push(child)
AdoptT(cur, c) == Push(TypePushChild(cur, c.type_exp), c)

RECURSIVE Eval(_, _, _, _), SubRule(_, _, _, _), WhileOk(_, _, _, _, _, _), CommaLoop(_, _, _, _, _), FirstOk(_, _, _, _)
RECURSIVE CascadeFold(_, _, _, _, _, _), ArgumentLoop(_, _, _, _), ExpressionLoop(_, _, _, _)
RECURSIVE GenericAssocLoop(_, _, _, _), InitializerLoop(_, _, _, _)
RECURSIVE CascadeFold_right(_, _, _, _, _, _), CascadeFold_copy(_, _, _, _, _, _)

(***************************************************************************)
(* Terminals.                                                              *)
(***************************************************************************)
p_identifier(ts, pos) ==
    IF pos >= Len(ts) THEN check_pos(pos, Len(ts))
    ELSE IF At(ts, pos).k = "IDENTIFIER"
         THEN Ok(SetType(ParseNode_new(NTStr("Identifier", At(ts, pos).v, "")),
                         new_val(BTIdentifier(At(ts, pos).v))), pos + 1)
    ELSE error_handler("identifier")

\* p_constant typing an integer constant int
p_constant_int(ts, pos) ==
    IF pos >= Len(ts) THEN check_pos(pos, Len(ts))
    ELSE LET t == At(ts, pos) IN
         CASE t.k = "IConstant" ->
                Ok(SetType(ParseNode_new(NTStr("Constant", t.v, "I64")), new_val(BT("Int"))), pos + 1)
           [] t.k = "FConstant" ->
                Ok(SetType(ParseNode_new(NTStr("Constant", t.v, "F64")), new_val(BT("Double"))), pos + 1)
           [] t.k = "EnumerationConstant" ->
                Ok(SetType(ParseNode_new(NTStr("Constant", t.v, "String")), new_val(BT("Long"))), pos + 1)
           [] OTHER -> error_handler("constant")

p_constant(ts, pos) ==
    IF pos >= Len(ts) THEN check_pos(pos, Len(ts))
    ELSE LET t == At(ts, pos) IN
         CASE t.k = "IConstant" ->
                Ok(SetType(ParseNode_new(NTStr("Constant", t.v, "I64")), new_val(BT("Long"))), pos + 1)
           [] t.k = "FConstant" ->
                Ok(SetType(ParseNode_new(NTStr("Constant", t.v, "F64")), new_val(BT("Double"))), pos + 1)
           [] t.k = "EnumerationConstant" ->
                Ok(SetType(ParseNode_new(NTStr("Constant", t.v, "String")), new_val(BT("Long"))), pos + 1)
           [] OTHER -> error_handler("constant")

p_enumeration_constant(ts, pos) ==
    IF pos >= Len(ts) THEN check_pos(pos, Len(ts))
    ELSE IF At(ts, pos).k = "IDENTIFIER"
         THEN Ok(SetType(ParseNode_new(NTStr("EnumerationConstant", At(ts, pos).v, "")),
                         new_val(BTIdentifier(At(ts, pos).v))), pos + 1)
    ELSE error_handler("identifier")

FuncNameLiteral == "__func_name__"

\* The characters U+0080 .. U+00FF.  A string of the model holds characters up to U+00FF; in
\* UTF-8, the encoding of a Rust string, these take two bytes each and the ones below one byte.
Latin1Supplement == " ¡¢£¤¥¦§¨©ª«¬­®¯°±²³´µ¶·¸¹º»¼½¾¿ÀÁÂÃÄÅÆÇÈÉÊËÌÍÎÏÐÑÒÓÔÕÖ×ØÙÚÛÜÝÞßàáâãäåæçèéêëìíîïðñòóôõö÷øùúûüýþÿ"
TwoBytes(ch) == \E j \in 1..Len(Latin1Supplement) : SubSeq(Latin1Supplement, j, j) = ch
\* v.len(): the length of v in bytes
str_len(v) == Len(v) + Cardinality({i \in 1..Len(v) : TwoBytes(SubSeq(v, i, i))})

p_string(ts, pos) ==
    IF pos >= Len(ts) THEN check_pos(pos, Len(ts))
    ELSE LET t == At(ts, pos) IN
         CASE t.k = "StringLiteral" ->
                Ok(SetType(ParseNode_new(NTStr("STRING", t.v, "")),
                           [val |-> <<BTArray(str_len(t.v)), BT("Char")>>, child |-> <<>>]), pos + 1)
           [] t.k = "FuncName" ->
                Ok(SetType(ParseNode_new(NTStr("STRING", FuncNameLiteral, "")),
                           [val |-> <<BTArray(str_len(FuncNameLiteral)), BT("Char")>>, child |-> <<>>]), pos + 1)
           [] OTHER -> error_handler("String literal")

UnaryOperatorToks == {"Minus", "SingleAnd", "Multi", "Exclamation", "Tilde", "Plus"}

p_unary_operator(ts, pos) ==
    IF pos >= Len(ts) THEN check_pos(pos, Len(ts))
    ELSE IF At(ts, pos).k \in UnaryOperatorToks
         THEN Ok(ParseNode_new(NTTok("UnaryOperator", At(ts, pos))), pos + 1)
    ELSE error_handler("unary_operator")

AssignmentOperatorToks ==
    {"Assign", "MulAssign", "DivAssign", "ModAssign", "AddAssign", "SubAssign",
     "LeftAssign", "RightAssign", "AndAssign", "XorAssign", "OrAssign"}

p_assignment_operator(ts, pos) ==
    IF pos >= Len(ts) THEN check_pos(pos, Len(ts))
    ELSE IF At(ts, pos).k \in AssignmentOperatorToks
         THEN Ok(ParseNode_new(NTTok("AssignmentOperator", At(ts, pos))), pos + 1)
    ELSE error_handler("Assignment operator")

(***************************************************************************)
(* Expressions.                                                            *)
(***************************************************************************)
p_primary_expression(ts, pos, m) ==
    IF pos >= Len(ts) THEN check_pos(pos, Len(ts))
    ELSE LET cur == ParseNode_new(NT("PrimaryExpression"))
             r1 == p_identifier(ts, pos)
             r2 == p_constant(ts, pos)
             r3 == p_string(ts, pos)
         IN  IF IsOk(r1) THEN Ok(Adopt(cur, r1.node), r1.pos)
             ELSE IF IsOk(r2) THEN Ok(Adopt(cur, r2.node), r2.pos)
             ELSE IF IsOk(r3) THEN Ok(Adopt(cur, r3.node), r3.pos)
             ELSE IF IsOk(check_tok(pos, ts, Tok("LParen")))
                  THEN LET e == SubRule("expression", ts, pos + 1, m) IN
                       IF ~IsOk(e) THEN e
                       ELSE IF ~IsOk(check_tok(e.pos, ts, Tok("RParen")))
                            THEN check_tok(e.pos, ts, Tok("RParen"))
                       ELSE Ok(Adopt(cur, e.node), e.pos + 1)
             ELSE LET g == SubRule("generic_selection", ts, pos, m) IN
                  IF IsPanic(g) THEN g
                  ELSE IF IsOk(g) THEN Ok(Adopt(cur, g.node), g.pos)
                  ELSE Err("Can not parse primary expression")

p_generic_selection(ts, pos, m) ==
    IF pos >= Len(ts) THEN check_pos(pos, Len(ts))
    ELSE IF At(ts, pos) # Tok("GENERIC") THEN error_handler("__Generic")
    ELSE IF ~IsOk(check_tok(pos + 1, ts, Tok("LParen"))) THEN check_tok(pos + 1, ts, Tok("LParen"))
    ELSE IF pos + 2 >= Len(ts) THEN check_pos(pos + 2, Len(ts))
    ELSE LET cur == ParseNode_new(NT("GenericSelection"))
             a == SubRule("assignment_expression", ts, pos + 2, m)
         IN  IF ~IsOk(a) THEN a
             ELSE IF ~IsOk(check_tok(a.pos, ts, Tok("Comma"))) THEN check_tok(a.pos, ts, Tok("Comma"))
             ELSE LET l == SubRule("generic_assoc_list", ts, a.pos + 1, m) IN
                  IF ~IsOk(l) THEN l
                  ELSE IF ~IsOk(check_tok(l.pos, ts, Tok("RParen")))
                       THEN check_tok(l.pos, ts, Tok("RParen"))
                  ELSE Ok(Push(Push(cur, a.node), l.node), l.pos + 1)

\* while let Ok(_) = check_tok(pos, Comma) { back_pos = pos; ...; Err => { pos = back_pos; break } }
GenericAssocLoop(ts, pos, cur, m) ==
    IF ~IsOk(check_tok(pos, ts, Tok("Comma"))) THEN Ok(cur, pos)
    ELSE LET r == SubRule("generic_association", ts, pos + 1, m) IN
         IF IsPanic(r) THEN r
         ELSE IF IsOk(r) THEN GenericAssocLoop(ts, r.pos, Push(cur, r.node), m)
         ELSE Ok(cur, pos)

p_generic_assoc_list(ts, pos, m) ==
    IF pos >= Len(ts) THEN check_pos(pos, Len(ts))
    ELSE LET cur == ParseNode_new(NT("GenericAssocList"))
             r == SubRule("generic_association", ts, pos, m)
         IN  IF ~IsOk(r) THEN r
             ELSE GenericAssocLoop(ts, r.pos, Push(cur, r.node), m)

p_generic_association(ts, pos, m) ==
    IF pos >= Len(ts) THEN Err("out of token index")
    ELSE LET cur == ParseNode_new(NT("GenericAssociation"))
             t == SubRule("type_name", ts, pos, m)
             cur1 == IF IsOk(t) THEN Push(cur, t.node) ELSE cur
             pos1 == IF IsOk(t) THEN t.pos ELSE pos + 1
         IN  IF IsPanic(t) THEN t
             ELSE IF ~IsOk(t) /\ At(ts, pos) # Tok("DEFAULT") THEN Err("Can't find proper type name or default")
             ELSE IF ~IsOk(check_tok(pos1, ts, Tok("Colon"))) THEN check_tok(pos1, ts, Tok("Colon"))
             ELSE LET a == SubRule("assignment_expression", ts, pos1 + 1, m) IN
                  IF ~IsOk(a) THEN a ELSE Ok(Push(cur1, a.node), a.pos)

\* loop { if let Ok(..) = p_xxx(toks, pos) { [type_exp.child.push;] child.push; pos = tmp } else { break } }
\* and: while let Ok(..) = p_xxx(toks, pos) { inc += 1; type_exp.child.push; child.push; pos = tmp }
WhileOk(sub, ts, pos, cur, pushType, m) ==
    LET r == SubRule(sub, ts, pos, m) IN
    IF IsPanic(r) THEN r
    ELSE IF IsOk(r)
         THEN WhileOk(sub, ts, r.pos, IF pushType THEN AdoptT(cur, r.node) ELSE Push(cur, r.node), pushType, m)
    ELSE Ok(cur, pos)

p_postfix_expression(ts, pos, m) ==
    IF pos >= Len(ts) THEN check_pos(pos, Len(ts))
    ELSE LET cur == ParseNode_new(NT("PostfixExpression"))
             p == SubRule("primary_expression", ts, pos, m)
         IN  IF IsPanic(p) THEN p
             ELSE IF IsOk(p)
                  THEN LET l == WhileOk("postfix_expression_post", ts, p.pos, AdoptT(cur, p.node), FALSE, m) IN
                       IF ~IsOk(l) THEN l
                       ELSE IF Len(l.node.child) = 1 THEN Ok(SetType(l.node, p.node.type_exp), l.pos)
                       ELSE l
             ELSE IF IsOk(check_tok(pos, ts, Tok("LParen")))
                  THEN LET t == SubRule("type_name", ts, pos + 1, m) IN
                       IF ~IsOk(t) THEN t
                       ELSE IF ~IsOk(check_tok(t.pos, ts, Tok("RParen"))) THEN check_tok(t.pos, ts, Tok("RParen"))
                       ELSE IF ~IsOk(check_tok(t.pos + 1, ts, Tok("LBrace")))
                            THEN check_tok(t.pos + 1, ts, Tok("LBrace"))
                       ELSE LET i == SubRule("initializer_list", ts, t.pos + 2, m)
                                cur2 == AdoptT(AdoptT(cur, t.node), i.node)
                            IN  IF ~IsOk(i) THEN i
                                ELSE IF IsOk(check_tok(i.pos, ts, Tok("RBrace")))
                                     THEN WhileOk("postfix_expression_post", ts, i.pos + 1, cur2, TRUE, m)
                                ELSE IF ~IsOk(check_tok(i.pos, ts, Tok("Comma")))
                                     THEN check_tok(i.pos, ts, Tok("Comma"))
                                ELSE IF ~IsOk(check_tok(i.pos + 1, ts, Tok("RBrace")))
                                     THEN check_tok(i.pos + 1, ts, Tok("RBrace"))
                                ELSE WhileOk("postfix_expression_post", ts, i.pos + 2, cur2, TRUE, m)
             ELSE Err("Error parse postfix_expression")

p_postfix_expression_post(ts, pos, m) ==
    IF pos >= Len(ts) THEN check_pos(pos, Len(ts))
    ELSE LET t == At(ts, pos)
             cur == ParseNode_new(NTTok("PostfixExpressionPost", t))
         IN  CASE t.k = "LBracket" ->
                    LET e == SubRule("expression", ts, pos + 1, m) IN
                    IF ~IsOk(e) THEN e
                    ELSE IF ~IsOk(check_tok(e.pos, ts, Tok("RBracket")))
                         THEN check_tok(e.pos, ts, Tok("RBracket"))
                    ELSE Ok(Adopt(cur, e.node), e.pos + 1)
               [] t.k = "LParen" ->
                    IF IsOk(check_tok(pos + 1, ts, Tok("RParen"))) THEN Ok(cur, pos + 2)
                    ELSE LET a == SubRule("argument_expression_list", ts, pos + 1, m) IN
                         IF ~IsOk(a) THEN a
                         ELSE IF ~IsOk(check_tok(a.pos, ts, Tok("RParen")))
                              THEN check_tok(a.pos, ts, Tok("RParen"))
                         ELSE Ok(Adopt(cur, a.node), a.pos + 1)
               [] t.k \in {"Dot", "PtrOp"} ->
                    LET i == p_identifier(ts, pos + 1) IN
                    IF ~IsOk(i) THEN i ELSE Ok(Push(cur, i.node), i.pos)
               [] t.k \in {"IncOp", "DecOp"} -> Ok(cur, pos + 1)
               [] OTHER -> Err("is a postfix operator")

\* loop { check_tok(pos, Comma) else break; match p_assignment_expression(toks, pos + 1)
\*        { Ok => { inc += 1; ...; pos = tmp } Err => { pos = pos - 1; break } } }
ArgumentLoop(ts, pos, cur, m) ==
    IF ~IsOk(check_tok(pos, ts, Tok("Comma"))) THEN Ok(cur, pos)
    ELSE LET r == SubRule("assignment_expression", ts, pos + 1, m) IN
         IF IsPanic(r) THEN r
         ELSE IF IsOk(r) THEN ArgumentLoop(ts, r.pos, AdoptT(cur, r.node), m)
         ELSE Ok(cur, pos - 1)

p_argument_expression_list(ts, pos, m) ==
    IF pos >= Len(ts) THEN check_pos(pos, Len(ts))
    ELSE LET cur == ParseNode_new(NT("ArgumentExpressionList"))
             a == SubRule("assignment_expression", ts, pos, m)
         IN  IF ~IsOk(a) THEN a
             ELSE LET l == ArgumentLoop(ts, a.pos, AdoptT(cur, a.node), m) IN
                  IF ~IsOk(l) THEN l
                  ELSE IF Len(l.node.child) = 1 THEN Ok(SetType(l.node, a.node.type_exp), l.pos)
                  ELSE l

p_unary_expression(ts, pos, m) ==
    IF pos >= Len(ts) THEN check_pos(pos, Len(ts))
    ELSE LET t == At(ts, pos) IN
         CASE t.k \in {"IncOp", "DecOp"} ->
                LET u == SubRule("unary_expression", ts, pos + 1, m) IN
                IF ~IsOk(u) THEN u
                ELSE Ok(Adopt(ParseNode_new(NTTok("UnaryExpression", t)), u.node), u.pos)
           [] t.k = "SIZEOF" ->
                \* let pos = pos + 1; UnaryExpression(Some(toks[pos].clone()))
                IF pos + 1 >= Len(ts) THEN Panic
                ELSE LET cur == ParseNode_new(NTTok("UnaryExpression", At(ts, pos + 1)))
                         c == IF IsOk(check_tok(pos + 1, ts, Tok("LParen")))
                              THEN SubRule("type_name", ts, pos + 1, m)
                              ELSE SubRule("unary_expression", ts, pos + 1, m)
                     IN  IF ~IsOk(c) THEN c
                         ELSE Ok(Push(SetType(cur, new_val(BT("SizeT"))), c.node), c.pos)
           [] t.k = "ALIGNOF" ->
                LET cur == ParseNode_new(NTTok("UnaryExpression", t)) IN
                IF IsOk(check_tok(pos + 1, ts, Tok("LParen")))
                THEN LET c == SubRule("type_name", ts, pos + 2, m) IN
                     IF ~IsOk(c) THEN c
                     ELSE Ok(Push(SetType(cur, new_val(BT("SizeT"))), c.node), c.pos)
                ELSE error_handler_at("(", ts, pos + 1)
           [] OTHER ->
                LET o == p_unary_operator(ts, pos) IN
                IF IsOk(o)
                THEN LET cur == Push(ParseNode_new(NT("UnaryExpression")), o.node)
                         unary_op == o.node.entry.tok
                         c == SubRule("cast_expression", ts, o.pos, m)
                         ty == CASE unary_op.k = "SingleAnd" -> new_val(BT("Pointer"))
                                 [] unary_op.k = "Multi" ->
                                      [val |-> <<BT("Pointer"), BT("VoidPointer")>>, child |-> <<>>]
                                 [] OTHER -> c.node.type_exp
                     IN  IF ~IsOk(c) THEN c
                         ELSE Ok(Push(SetType(cur, ty), c.node), c.pos)
                ELSE LET p == SubRule("postfix_expression", ts, pos, m) IN
                     IF IsPanic(p) THEN p
                     ELSE IF IsOk(p) THEN Ok(Adopt(ParseNode_new(NT("UnaryExpression")), p.node), p.pos)
                     ELSE Err("Can't parse unary_expression")

\* a cast rule that parses its operand after the ')' and never consults judge_cast
p_cast_expression_ungated(ts, pos, m) ==
    IF pos >= Len(ts) THEN check_pos(pos, Len(ts))
    ELSE LET cur == ParseNode_new(NT("CastExpression"))
             u == SubRule("unary_expression", ts, pos, m)
         IN  IF IsPanic(u) THEN u
             ELSE IF IsOk(u) THEN Ok(Adopt(cur, u.node), u.pos)
             ELSE IF IsOk(check_tok(pos, ts, Tok("LParen")))
                  THEN LET t == SubRule("type_name", ts, pos + 1, m) IN
                       IF ~IsOk(t) THEN t
                       ELSE IF ~IsOk(check_tok(t.pos, ts, Tok("RParen")))
                            THEN check_tok(t.pos, ts, Tok("RParen"))
                       ELSE LET c == SubRule("cast_expression", ts, t.pos + 1, m) IN
                            IF ~IsOk(c) THEN c
                            ELSE Ok(Push(SetType(Push(cur, t.node), t.node.type_exp), c.node), c.pos)
             ELSE Err("Error parse cast_expression")

p_cast_expression(ts, pos, m) ==
    IF pos >= Len(ts) THEN check_pos(pos, Len(ts))
    ELSE LET cur == ParseNode_new(NT("CastExpression"))
             u == SubRule("unary_expression", ts, pos, m)
         IN  IF IsPanic(u) THEN u
             ELSE IF IsOk(u) THEN Ok(Adopt(cur, u.node), u.pos)
             ELSE IF IsOk(check_tok(pos, ts, Tok("LParen")))
                  THEN LET t == SubRule("type_name", ts, pos + 1, m) IN
                       IF ~IsOk(t) THEN t
                       ELSE IF ~IsOk(check_tok(t.pos, ts, Tok("RParen")))
                            THEN check_tok(t.pos, ts, Tok("RParen"))
                       \* the operand is parsed from the position of ')' itself
                       ELSE LET c == SubRule("cast_expression", ts, t.pos, m) IN
                            IF ~IsOk(c) THEN c
                            ELSE IF ~judge_cast(t.node.type_exp, c.node.type_exp)
                                 THEN Err("Can not cast")
                            ELSE Ok(Push(SetType(Push(cur, t.node), t.node.type_exp), c.node), c.pos)
             ELSE Err("Error parse cast_expression")

(***************************************************************************)
(* The ten binary cascade levels.  Their bodies differ only in the node    *)
(* variant, the operator tokens and the operand rule, so one pair of       *)
(* operators carries the shared body.                                      *)
(***************************************************************************)
\* a fold that groups to the right: a OP1 (b OP2 c)
CascadeFold_right(ops, sub, ts, pos, child, m) ==
    IF pos >= Len(ts) THEN Panic
    ELSE IF At(ts, pos).k \notin ops THEN Ok(child, pos)
    ELSE LET op == At(ts, pos)
             n == SubRule(sub, ts, pos + 1, m)
             r == CascadeFold_right(ops, sub, ts, n.pos, n.node, m)
             j == judge_combine_type(child.type_exp, r.node.type_exp, op)
             bincur_node == Push(Push(ParseNode_new(NTTok("BinaryExpression", op)), child), r.node)
         IN  IF ~IsOk(n) THEN n
             ELSE IF ~IsOk(r) THEN r
             ELSE IF ~j.accepted THEN Err("can not use type")
             ELSE Ok(SetType(bincur_node, j.type), r.pos)

\* a fold that consults the oracle but gives the node a copy of its left operand's type
CascadeFold_copy(ops, sub, ts, pos, child, m) ==
    IF pos >= Len(ts) THEN Panic
    ELSE IF At(ts, pos).k \notin ops THEN Ok(child, pos)
    ELSE LET op == At(ts, pos)
             n == SubRule(sub, ts, pos + 1, m)
             j == judge_combine_type(child.type_exp, n.node.type_exp, op)
             bincur_node == Push(Push(ParseNode_new(NTTok("BinaryExpression", op)), child), n.node)
         IN  IF ~IsOk(n) THEN n
             ELSE IF ~j.accepted THEN Err("can not use type")
             ELSE CascadeFold_copy(ops, sub, ts, n.pos, SetType(bincur_node, child.type_exp), m)

\* while *tok == OP.. { bincur_node = BinaryExpression(tok); pos += 1; operand?;
\*   push(child_node); push(next_child_node); judge_combine_type or return Err;
\*   child_node = bincur_node; l_type = ..; tok = &toks[pos] }
CascadeFold(ops, sub, ts, pos, child, m) ==
    IF pos >= Len(ts) THEN Panic
    ELSE IF At(ts, pos).k \notin ops THEN Ok(child, pos)
    ELSE LET op == At(ts, pos)
             n == SubRule(sub, ts, pos + 1, m)
             j == judge_combine_type(child.type_exp, n.node.type_exp, op)
             bincur_node == Push(Push(ParseNode_new(NTTok("BinaryExpression", op)), child), n.node)
         IN  IF ~IsOk(n) THEN n
             ELSE IF ~j.accepted THEN Err("can not use type")
             ELSE CascadeFold(ops, sub, ts, n.pos, SetType(bincur_node, j.type), m)

\* Cascade with the one-operand node left without its operand's type
Cascade_untyped(entry, ops, sub, ts, pos, m) ==
    IF pos >= Len(ts) THEN check_pos(pos, Len(ts))
    ELSE LET c == SubRule(sub, ts, pos, m) IN
         IF ~IsOk(c) THEN c
         ELSE LET f == CascadeFold(ops, sub, ts, c.pos, c.node, m) IN
              IF ~IsOk(f) THEN f
              ELSE IF f.node = c.node THEN Ok(Push(ParseNode_new(NT(entry)), f.node), f.pos)
              ELSE Ok(Adopt(ParseNode_new(NT(entry)), f.node), f.pos)

Cascade(entry, ops, sub, ts, pos, m) ==
    IF pos >= Len(ts) THEN check_pos(pos, Len(ts))
    ELSE LET c == SubRule(sub, ts, pos, m) IN
         IF ~IsOk(c) THEN c
         ELSE LET f == CascadeFold(ops, sub, ts, c.pos, c.node, m) IN
              IF ~IsOk(f) THEN f
              ELSE Ok(Adopt(ParseNode_new(NT(entry)), f.node), f.pos)

MultiplicativeOps == {"Mod", "Multi", "Splash"}
AdditiveOps == {"Plus", "Minus"}
ShiftOps == {"LeftOp", "RightOp"}
RelationalOps == {"LeOp", "GeOp", "Lt", "Gt"}
EqualityOps == {"EqOp", "NeOp"}

p_multiplicative_expression(ts, pos, m) ==
    Cascade("MultiplicativeExpression", MultiplicativeOps, "cast_expression", ts, pos, m)
\* p_additive_expression taking its operands from p_cast_expression, past the multiplicative level
p_additive_expression_flat(ts, pos, m) ==
    Cascade("AdditiveExpression", AdditiveOps, "cast_expression", ts, pos, m)
p_additive_expression(ts, pos, m) ==
    Cascade("AdditiveExpression", AdditiveOps, "multiplicative_expression", ts, pos, m)
p_shift_expression(ts, pos, m) ==
    Cascade("ShiftExpression", ShiftOps, "additive_expression", ts, pos, m)
p_relational_expression(ts, pos, m) ==
    Cascade("RelationalExpression", RelationalOps, "shift_expression", ts, pos, m)
p_equality_expression(ts, pos, m) ==
    Cascade("EqualityExpression", EqualityOps, "relational_expression", ts, pos, m)
p_and_expression(ts, pos, m) ==
    Cascade("AndExpression", {"SingleAnd"}, "equality_expression", ts, pos, m)
p_exclusive_or_expression(ts, pos, m) ==
    Cascade("ExclusiveOrExpression", {"ExclusiveOr"}, "and_expression", ts, pos, m)
p_inclusive_or_expression(ts, pos, m) ==
    Cascade("InclusiveOrExpression", {"InclusiveOr"}, "exclusive_or_expression", ts, pos, m)
p_logical_and_expression(ts, pos, m) ==
    Cascade("LogicalAndExpression", {"AndOp"}, "inclusive_or_expression", ts, pos, m)
p_logical_or_expression(ts, pos, m) ==
    Cascade("LogicalOrExpression", {"OrOp"}, "logical_and_expression", ts, pos, m)

ConditionTypes == {"Int", "Bool", "Long", "Signed", "Unsigned", "Char"}

\* p_conditional_expression with the condition's type judged after both branches are parsed
p_conditional_expression_late(ts, pos, m) ==
    IF pos >= Len(ts) THEN check_pos(pos, Len(ts))
    ELSE LET cur == ParseNode_new(NT("ConditionalExpression"))
             c == SubRule("logical_or_expression", ts, pos, m)
         IN  IF IsPanic(c) THEN c
             ELSE IF ~IsOk(c) THEN Err("Error parse logical_or_expressiong")
             ELSE IF ~IsOk(check_tok(c.pos, ts, Tok("QuestionMark")))
                  THEN Ok(Adopt(cur, c.node), c.pos)
             ELSE LET e == SubRule("expression", ts, c.pos + 1, m) IN
                  IF ~IsOk(e) THEN e
                  ELSE IF ~IsOk(check_tok(e.pos, ts, Tok("Colon"))) THEN check_tok(e.pos, ts, Tok("Colon"))
                  ELSE LET r == SubRule("conditional_expression", ts, e.pos + 1, m) IN
                       IF ~IsOk(r) THEN r
                       ELSE IF ~(\E b \in ConditionTypes : judge_type_same(c.node.type_exp, new_val(BT(b))))
                            THEN Err("Conditional Expression doesn't have logical expression")
                       ELSE IF ~judge_type_same(e.node.type_exp, r.node.type_exp)
                            THEN Err("Two option expression in Teneray Expression has different type")
                       ELSE Ok(Push(SetType(Push(Push(cur, c.node), e.node), r.node.type_exp), r.node), r.pos)

p_conditional_expression(ts, pos, m) ==
    IF pos >= Len(ts) THEN check_pos(pos, Len(ts))
    ELSE LET cur == ParseNode_new(NT("ConditionalExpression"))
             c == SubRule("logical_or_expression", ts, pos, m)
         IN  IF IsPanic(c) THEN c
             ELSE IF ~IsOk(c) THEN Err("Error parse logical_or_expressiong")
             ELSE IF ~IsOk(check_tok(c.pos, ts, Tok("QuestionMark")))
                  THEN Ok(Adopt(cur, c.node), c.pos)
             ELSE IF ~(\E b \in ConditionTypes : judge_type_same(c.node.type_exp, new_val(BT(b))))
                  THEN Err("Conditional Expression doesn't have logical expression")
             ELSE LET e == SubRule("expression", ts, c.pos + 1, m) IN
                  IF ~IsOk(e) THEN e
                  ELSE IF ~IsOk(check_tok(e.pos, ts, Tok("Colon"))) THEN check_tok(e.pos, ts, Tok("Colon"))
                  ELSE LET r == SubRule("conditional_expression", ts, e.pos + 1, m) IN
                       IF ~IsOk(r) THEN r
                       ELSE IF ~judge_type_same(e.node.type_exp, r.node.type_exp)
                            THEN Err("Two option expression in Teneray Expression has different type")
                       ELSE Ok(Push(SetType(Push(Push(cur, c.node), e.node), r.node.type_exp), r.node), r.pos)

p_assignment_expression(ts, pos, m) ==
    IF pos >= Len(ts) THEN check_pos(pos, Len(ts))
    ELSE LET cur == ParseNode_new(NT("AssignmentExpression"))
             u == SubRule("unary_expression", ts, pos, m)
             o == p_assignment_operator(ts, u.pos)
             a == SubRule("assignment_expression", ts, o.pos, m)
             c == SubRule("conditional_expression", ts, pos, m)
             t == implicit_type_cast(u.node.type_exp, a.node.type_exp)
         IN  IF IsPanic(u) THEN u
             ELSE IF IsOk(u) /\ IsOk(o) /\ IsPanic(a) THEN a
             ELSE IF IsOk(u) /\ IsOk(o) /\ IsOk(a)
                  THEN IF ~t.accepted THEN Err("can not implicitly cast")
                       ELSE Ok(SetType(Push(Push(Push(cur, u.node), o.node), a.node), t.type), a.pos)
             ELSE IF ~IsOk(c) THEN c
             ELSE Ok(Adopt(cur, c.node), c.pos)

\* loop { check_tok(pos, Comma) else break; pos = pos + 1;
\*        match p_assignment_expression(toks, pos) { Ok => {..; pos = tmp_pos} Err => break } }
ExpressionLoop(ts, pos, cur, m) ==
    IF ~IsOk(check_tok(pos, ts, Tok("Comma"))) THEN Ok(cur, pos)
    ELSE LET r == SubRule("assignment_expression", ts, pos + 1, m) IN
         IF IsPanic(r) THEN r
         ELSE IF IsOk(r) THEN ExpressionLoop(ts, r.pos, Adopt(cur, r.node), m)
         ELSE Ok(cur, pos + 1)

\* the first assignment-expression's type kept whatever follows it
p_expression_first(ts, pos, m) ==
    IF pos >= Len(ts) THEN check_pos(pos, Len(ts))
    ELSE LET cur == ParseNode_new(NT("Expression"))
             a == SubRule("assignment_expression", ts, pos, m)
         IN  IF ~IsOk(a) THEN a
             ELSE LET l == ExpressionLoop(ts, a.pos, AdoptT(cur, a.node), m) IN
                  IF ~IsOk(l) THEN l
                  ELSE Ok(SetType(l.node, a.node.type_exp), l.pos)

p_expression(ts, pos, m) ==
    IF pos >= Len(ts) THEN check_pos(pos, Len(ts))
    ELSE LET cur == ParseNode_new(NT("Expression"))
             a == SubRule("assignment_expression", ts, pos, m)
         IN  IF ~IsOk(a) THEN a
             ELSE LET l == ExpressionLoop(ts, a.pos, AdoptT(cur, a.node), m) IN
                  IF ~IsOk(l) THEN l
                  ELSE IF Len(l.node.child) = 1 THEN Ok(SetType(l.node, a.node.type_exp), l.pos)
                  ELSE l

p_constant_expression(ts, pos, m) ==
    IF pos >= Len(ts) THEN check_pos(pos, Len(ts))
    ELSE LET c == SubRule("conditional_expression", ts, pos, m) IN
         IF ~IsOk(c) THEN c
         ELSE Ok(Adopt(ParseNode_new(NT("ConstantExpression")), c.node), c.pos)

(***************************************************************************)
(* Declarations.                                                           *)
(***************************************************************************)
\* if let Ok(..) = p_a(toks, pos) {..} else if let Ok(..) = p_b(toks, pos) {..} ...
\* the first alternative that succeeds, tried in the order written.
FirstOk(subs, ts, pos, m) ==
    IF subs = <<>> THEN Err("no alternative")
    ELSE LET r == SubRule(Head(subs), ts, pos, m) IN
         IF IsOk(r) \/ IsPanic(r) THEN r ELSE FirstOk(Tail(subs), ts, pos, m)

\* loop { check_tok(pos, Comma) else break, pos = pos + 1;
\*        match p_item(toks, pos) { Ok => {type_exp.child.push; child.push; pos = tmp_pos}
\*                                  Err => {pos = pos - 1; break} } }
CommaLoop(sub, ts, pos, cur, m) ==
    IF ~IsOk(check_tok(pos, ts, Tok("Comma"))) THEN Ok(cur, pos)
    ELSE LET r == SubRule(sub, ts, pos + 1, m) IN
         IF IsPanic(r) THEN r
         ELSE IF IsOk(r) THEN CommaLoop(sub, ts, r.pos, AdoptT(cur, r.node), m)
         ELSE Ok(cur, pos)

\* CommaList without the single-item flattening
CommaList_composite(entry, sub, ts, pos, flatten, m) ==
    IF pos >= Len(ts) THEN check_pos(pos, Len(ts))
    ELSE LET f == SubRule(sub, ts, pos, m) IN
         IF ~IsOk(f) THEN f
         ELSE CommaLoop(sub, ts, f.pos, AdoptT(ParseNode_new(NT(entry)), f.node), m)

\* item { ',' item } with the single-item flattening: if inc == 0 { type_exp = pre_type }
CommaList(entry, sub, ts, pos, flatten, m) ==
    IF pos >= Len(ts) THEN check_pos(pos, Len(ts))
    ELSE LET f == SubRule(sub, ts, pos, m) IN
         IF ~IsOk(f) THEN f
         ELSE LET l == CommaLoop(sub, ts, f.pos, AdoptT(ParseNode_new(NT(entry)), f.node), m) IN
              IF ~IsOk(l) THEN l
              ELSE IF flatten /\ Len(l.node.child) = 1 THEN Ok(SetType(l.node, f.node.type_exp), l.pos)
              ELSE l

p_declaration(ts, pos, m) ==
    IF pos >= Len(ts) THEN check_pos(pos, Len(ts))
    ELSE LET cur == ParseNode_new(NT("Declaration"))
             s == SubRule("declaration_specifiers", ts, pos, m)
         IN  IF IsPanic(s) THEN s
             ELSE IF IsOk(s)
                  THEN IF IsOk(check_tok(s.pos, ts, Tok("Semicolon")))
                       THEN Ok(Adopt(cur, s.node), s.pos + 1)
                       ELSE LET l == SubRule("init_declarator_list", ts, s.pos, m) IN
                            IF ~IsOk(l) THEN l
                            ELSE IF IsOk(check_tok(l.pos, ts, Tok("Semicolon")))
                                 THEN Ok(AdoptT(AdoptT(cur, s.node), l.node), l.pos + 1)
                            ELSE error_handler_at(";", ts, l.pos)
             ELSE LET a == SubRule("static_assert_declaration", ts, pos, m) IN
                  IF IsPanic(a) THEN a
                  ELSE IF IsOk(a) THEN Ok(Adopt(cur, a.node), a.pos)
                  ELSE Err("Can't parse declaration")

\* one specifier followed by an optional further specifier list (the shared
\* body of every branch of declaration_specifiers / specifier_qualifier_list)
SpecifierChain(entry, alts, rest, msg, ts, pos, m) ==
    IF pos >= Len(ts) THEN check_pos(pos, Len(ts))
    ELSE LET cur == ParseNode_new(NT(entry))
             f == FirstOk(alts, ts, pos, m)
         IN  IF IsPanic(f) THEN f
             ELSE IF ~IsOk(f) THEN Err(msg)
             ELSE LET n == SubRule(rest, ts, f.pos, m) IN
                  IF IsPanic(n) THEN n
                  ELSE IF IsOk(n)
                       THEN Ok(Push(TypePushChild(TypePushChild(Push(cur, f.node), f.node.type_exp),
                                                  n.node.type_exp), n.node), n.pos)
                  ELSE Ok(SetType(Push(cur, f.node), f.node.type_exp), f.pos)

p_declaration_specifiers(ts, pos, m) ==
    SpecifierChain("DeclarationSpecifiers",
                   <<"storage_class_specifier", "type_specifier", "type_qualifier",
                     "function_specifier", "alignment_specifier">>,
                   "declaration_specifiers", "Can't parse declaration_specifiers", ts, pos, m)

p_init_declarator_list(ts, pos, m) == CommaList("InitDeclaratorList", "init_declarator", ts, pos, TRUE, m)

p_init_declarator(ts, pos, m) ==
    IF pos >= Len(ts) THEN check_pos(pos, Len(ts))
    ELSE LET cur == ParseNode_new(NT("InitDeclarator"))
             d == SubRule("declarator", ts, pos, m)
         IN  IF IsPanic(d) THEN d
             ELSE IF ~IsOk(d) THEN Err("Can't parse init_declarator")
             ELSE IF IsOk(check_tok(d.pos, ts, Tok("Assign")))
                  THEN LET i == SubRule("initializer", ts, d.pos + 1, m) IN
                       IF ~IsOk(i) THEN i
                       ELSE IF ~judge_type_same(d.node.type_exp, i.node.type_exp)
                            THEN Err("init_declarator, can not assign")
                       ELSE Ok(Push(Adopt(cur, d.node), i.node), i.pos)
             ELSE Ok(Adopt(cur, d.node), d.pos)

\* keyword token |-> BaseType, for the match arms that build a leaf node
KeywordType(k) ==
    CASE k = "EXTERN" -> "Extern" [] k = "STATIC" -> "Static" [] k = "ThreadLocal" -> "ThreadLocal"
      [] k = "AUTO" -> "Auto" [] k = "REGISTER" -> "Register"
      [] k = "VOID" -> "Void" [] k = "CHAR" -> "Char" [] k = "SHORT" -> "Short" [] k = "INT" -> "Int"
      [] k = "LONG" -> "Long" [] k = "FLOAT" -> "Float" [] k = "DOUBLE" -> "Double"
      [] k = "SIGNED" -> "Signed" [] k = "UNSIGNED" -> "Unsigned" [] k = "BOOL" -> "Bool"
      [] k = "COMPLEX" -> "Complex" [] k = "IMAGINARY" -> "Imaginary"
      [] k = "STRUCT" -> "Struct" [] k = "UNION" -> "Union"
      [] k = "CONST" -> "Const" [] k = "RESTRICT" -> "Restrict" [] k = "VOLATILE" -> "Volatile"
      [] k = "ATOMIC" -> "Atomic" [] k = "INLINE" -> "Inline" [] k = "NORETURN" -> "Noreturn"
      [] OTHER -> "None"

Leaf(entry, ts, pos) ==
    Ok(SetType(ParseNode_new(NTTok(entry, At(ts, pos))), new_val(BT(KeywordType(At(ts, pos).k)))), pos + 1)

StorageClassToks == {"EXTERN", "STATIC", "ThreadLocal", "AUTO", "REGISTER"}
TypeSpecifierToks ==
    {"VOID", "CHAR", "SHORT", "INT", "LONG", "FLOAT", "DOUBLE", "SIGNED", "UNSIGNED",
     "BOOL", "COMPLEX", "IMAGINARY"}
TypeQualifierToks == {"CONST", "RESTRICT", "VOLATILE", "ATOMIC"}
FunctionSpecifierToks == {"INLINE", "NORETURN"}

\* p_storage_class_specifier taking TYPEDEF as one more storage class
p_storage_class_specifier_typedef(ts, pos) ==
    IF pos >= Len(ts) THEN check_pos(pos, Len(ts))
    ELSE IF At(ts, pos).k = "TYPEDEF"
         THEN Ok(SetType(ParseNode_new(NTTok("TypeSpecifier", At(ts, pos))), new_val(BT("Typedef"))),
                 pos + 1)
    ELSE IF At(ts, pos).k \in StorageClassToks THEN Leaf("TypeSpecifier", ts, pos)
    ELSE error_handler("storage_class_specifier")

p_storage_class_specifier(ts, pos) ==
    IF pos >= Len(ts) THEN check_pos(pos, Len(ts))
    ELSE IF At(ts, pos).k = "TYPEDEF" THEN Err("Typedef is not supported in crust now")
    ELSE IF At(ts, pos).k \in StorageClassToks THEN Leaf("TypeSpecifier", ts, pos)
    ELSE error_handler("storage_class_specifier")

\* no check_pos here: match &toks[pos] indexes directly
p_type_specifier(ts, pos, m) ==
    IF pos >= Len(ts) THEN Panic
    ELSE IF At(ts, pos).k \in TypeSpecifierToks THEN Leaf("TypeSpecifier", ts, pos)
    ELSE IF At(ts, pos).k = "TypedefName" THEN Err("Typedef is not supported in crust now")
    ELSE LET r == FirstOk(<<"atomic_type_specifier", "struct_or_union_specifier", "enum_specifier">>,
                          ts, pos, m)
         IN  IF IsPanic(r) THEN r
             ELSE IF IsOk(r) THEN Ok(Adopt(ParseNode_new(NT("TypeSpecifier")), r.node), r.pos)
             ELSE Err("Error parse type specifier")

p_struct_or_union(ts, pos) ==
    IF pos >= Len(ts) THEN check_pos(pos, Len(ts))
    ELSE IF At(ts, pos).k \in {"STRUCT", "UNION"} THEN Leaf("StructOrUnion", ts, pos)
    ELSE error_handler("struct or union")

p_type_qualifier(ts, pos) ==
    IF pos >= Len(ts) THEN check_pos(pos, Len(ts))
    ELSE IF At(ts, pos).k \in TypeQualifierToks THEN Leaf("TypeQualifier", ts, pos)
    ELSE error_handler("[const, restricted, volatile, atomic]")

p_function_specifier(ts, pos) ==
    IF pos >= Len(ts) THEN check_pos(pos, Len(ts))
    ELSE IF At(ts, pos).k \in FunctionSpecifierToks THEN Leaf("FunctionSpecifier", ts, pos)
    ELSE error_handler("[inline, noreturn]")

p_struct_or_union_specifier(ts, pos, m) ==
    IF pos >= Len(ts) THEN check_pos(pos, Len(ts))
    ELSE LET s == p_struct_or_union(ts, pos)
             cur == AdoptT(ParseNode_new(NT("StructOrUnionSpecifier")), s.node)
             i == p_identifier(ts, s.pos)
         IN  IF ~IsOk(s) THEN s
             ELSE IF IsOk(i)
                  THEN IF IsOk(check_tok(i.pos, ts, Tok("LBrace")))
                       THEN LET l == SubRule("struct_declaration_list", ts, i.pos + 1, m) IN
                            IF ~IsOk(l) THEN l
                            ELSE IF ~IsOk(check_tok(l.pos, ts, Tok("RBrace")))
                                 THEN check_tok(l.pos, ts, Tok("RBrace"))
                            ELSE Ok(AdoptT(AdoptT(cur, i.node), l.node), l.pos + 1)
                       ELSE Ok(AdoptT(cur, i.node), i.pos)
             ELSE IF ~IsOk(check_tok(s.pos, ts, Tok("LBrace"))) THEN check_tok(s.pos, ts, Tok("LBrace"))
             ELSE LET l == SubRule("struct_declaration_list", ts, s.pos + 1, m) IN
                  IF ~IsOk(l) THEN l
                  \* the anonymous form closes on RParen
                  ELSE IF ~IsOk(check_tok(l.pos, ts, Tok("RParen")))
                       THEN check_tok(l.pos, ts, Tok("RParen"))
                  ELSE Ok(AdoptT(cur, l.node), l.pos + 1)

p_struct_declaration_list(ts, pos, m) ==
    IF pos >= Len(ts) THEN check_pos(pos, Len(ts))
    ELSE LET f == SubRule("struct_declaration", ts, pos, m) IN
         IF ~IsOk(f) THEN f
         ELSE LET l == WhileOk("struct_declaration", ts, f.pos,
                               AdoptT(ParseNode_new(NT("StructDeclarationList")), f.node), TRUE, m)
              IN  IF ~IsOk(l) THEN l
                  ELSE IF Len(l.node.child) = 1 THEN Ok(SetType(l.node, f.node.type_exp), l.pos)
                  ELSE l

p_struct_declaration(ts, pos, m) ==
    IF pos >= Len(ts) THEN check_pos(pos, Len(ts))
    ELSE LET cur == ParseNode_new(NT("StructDeclaration"))
             s == SubRule("specifier_qualifier_list", ts, pos, m)
         IN  IF IsPanic(s) THEN s
             ELSE IF IsOk(s)
                  THEN IF IsOk(check_tok(s.pos, ts, Tok("Semicolon")))
                       THEN Ok(Adopt(cur, s.node), s.pos + 1)
                       ELSE LET l == SubRule("struct_declarator_list", ts, s.pos, m) IN
                            IF ~IsOk(l) THEN l
                            ELSE IF IsOk(check_tok(l.pos, ts, Tok("Semicolon")))
                                 THEN Ok(Push(TypePushChild(TypePushChild(Push(cur, s.node),
                                              s.node.type_exp), l.node.type_exp), l.node), l.pos + 1)
                            ELSE error_handler_at(";", ts, l.pos)
             ELSE LET a == SubRule("static_assert_declaration", ts, pos, m) IN
                  IF IsPanic(a) THEN a
                  ELSE IF IsOk(a) THEN Ok(Adopt(cur, a.node), a.pos)
                  ELSE Err("Error parse struct declaration")

p_specifier_qualifier_list(ts, pos, m) ==
    SpecifierChain("SpecifierQualifier", <<"type_specifier", "type_qualifier">>,
                   "specifier_qualifier_list", "Error parse specifier_qualifier_list", ts, pos, m)

p_struct_declarator_list(ts, pos, m) ==
    CommaList("StructDeclaratorList", "struct_declarator", ts, pos, TRUE, m)

p_struct_declarator(ts, pos, m) ==
    IF pos >= Len(ts) THEN check_pos(pos, Len(ts))
    ELSE LET cur == ParseNode_new(NT("StructDeclarator")) IN
         IF IsOk(check_tok(pos, ts, Tok("Colon")))
         THEN LET c == SubRule("constant_expression", ts, pos + 1, m) IN
              IF ~IsOk(c) THEN c ELSE Ok(Adopt(cur, c.node), c.pos)
         ELSE LET d == SubRule("declarator", ts, pos, m) IN
              IF ~IsOk(d) THEN d
              ELSE IF IsOk(check_tok(d.pos, ts, Tok("Colon")))
                   \* the width expression is parsed from the position of ':' itself
                   THEN LET c == SubRule("constant_expression", ts, d.pos, m) IN
                        IF ~IsOk(c) THEN c
                        ELSE Ok(AdoptT(AdoptT(cur, d.node), c.node), c.pos)
              ELSE Ok(SetType(AdoptT(cur, d.node), d.node.type_exp), d.pos)

\* after the enumerator list: '}' | ',' '}' | Err(error_handler("}", &toks[pos], pos))
EnumClose(cur, ts, pos) ==
    IF IsOk(check_tok(pos, ts, Tok("RBrace"))) THEN Ok(cur, pos + 1)
    ELSE IF IsOk(check_tok(pos, ts, Tok("Comma")))
         THEN IF IsOk(check_tok(pos + 1, ts, Tok("RBrace"))) THEN Ok(cur, pos + 2)
              ELSE error_handler_at("}", ts, pos + 1)
    ELSE error_handler_at("}", ts, pos)

p_enum_specifier(ts, pos, m) ==
    IF pos >= Len(ts) THEN check_pos(pos, Len(ts))
    ELSE IF ~IsOk(check_tok(pos, ts, Tok("ENUM"))) THEN check_tok(pos, ts, Tok("ENUM"))
    ELSE IF IsOk(check_tok(pos + 1, ts, Tok("LBrace")))
         \* the enumerator list is parsed from the position of '{' itself
         THEN LET l == SubRule("enumerator_list", ts, pos + 1, m) IN
              IF ~IsOk(l) THEN l
              ELSE EnumClose(Push(ParseNode_new(NT("EnumSpecifier")), l.node), ts, l.pos)
    ELSE IF pos + 1 >= Len(ts) THEN Panic
    ELSE IF At(ts, pos + 1).k = "IDENTIFIER"
         THEN IF IsOk(check_tok(pos + 2, ts, Tok("LBrace")))
              THEN LET l == SubRule("enumerator_list", ts, pos + 2, m) IN
                   IF ~IsOk(l) THEN l
                   ELSE EnumClose(Push(ParseNode_new(NTStr("EnumSpecifier", At(ts, pos + 1).v, "")),
                                       l.node), ts, l.pos)
              ELSE error_handler_at("}", ts, pos + 2)
    ELSE error_handler("{ or identifier")

p_enumerator_list(ts, pos, m) == CommaList("EnumeratorList", "enumerator", ts, pos, FALSE, m)

EnumeratorTypes == {"Int", "Bool", "Long", "Signed", "Unsigned"}

p_enumerator(ts, pos, m) ==
    IF pos >= Len(ts) THEN check_pos(pos, Len(ts))
    ELSE LET e == p_enumeration_constant(ts, pos)
             cur == Push(ParseNode_new(NT("Enumerator")), e.node)
         IN  IF ~IsOk(e) THEN e
             ELSE IF IsOk(check_tok(e.pos, ts, Tok("Assign")))
                  THEN LET c == SubRule("constant_expression", ts, e.pos + 1, m) IN
                       IF ~IsOk(c) THEN c
                       ELSE IF ~(\E b \in EnumeratorTypes : judge_type_same(c.node.type_exp, new_val(BT(b))))
                            THEN Err("enumeration_constant can only assign to int")
                       ELSE Ok(AdoptT(TypePushChild(cur, e.node.type_exp), c.node), c.pos)
             ELSE Ok(SetType(cur, e.node.type_exp), e.pos)

p_atomic_type_specifier(ts, pos, m) ==
    IF pos >= Len(ts) THEN check_pos(pos, Len(ts))
    ELSE IF ~IsOk(check_tok(pos, ts, Tok("ATOMIC"))) THEN check_tok(pos, ts, Tok("ATOMIC"))
    ELSE IF ~IsOk(check_tok(pos + 1, ts, Tok("LParen"))) THEN check_tok(pos + 1, ts, Tok("LParen"))
    ELSE LET t == SubRule("type_name", ts, pos + 2, m) IN
         IF ~IsOk(t) THEN t
         ELSE IF ~IsOk(check_tok(t.pos, ts, Tok("RParen"))) THEN check_tok(t.pos, ts, Tok("RParen"))
         ELSE Ok(AdoptT(SetType(ParseNode_new(NT("AtomicTypeSpecifier")), new_val(BT("Atomic"))),
                        t.node), t.pos + 1)

p_alignment_specifier(ts, pos, m) ==
    IF pos >= Len(ts) THEN check_pos(pos, Len(ts))
    ELSE IF ~IsOk(check_tok(pos, ts, Tok("ALIGNAS"))) THEN check_tok(pos, ts, Tok("ALIGNAS"))
    ELSE IF ~IsOk(check_tok(pos + 1, ts, Tok("LParen"))) THEN check_tok(pos + 1, ts, Tok("LParen"))
    ELSE LET c == FirstOk(<<"type_name", "constant_expression">>, ts, pos + 2, m) IN
         IF IsPanic(c) THEN c
         ELSE IF ~IsOk(c) THEN Err("Error parse alignment_specifier")
         ELSE IF ~IsOk(check_tok(c.pos, ts, Tok("RParen"))) THEN check_tok(c.pos, ts, Tok("RParen"))
         ELSE Ok(SetType(Push(ParseNode_new(NT("AlignmentSpecifier")), c.node),
                         new_val(BT("NoneExpression"))), c.pos + 1)

\* first; if let Ok(second) { type_exp.child.push(first type); type_exp.child.push(second type);
\* child.push(second) } else { type_exp = first type }
WithOptional(cur, f, n) ==
    IF IsPanic(n) THEN n
    ELSE IF IsOk(n)
         THEN Ok(Push(TypePushChild(TypePushChild(Push(cur, f.node), f.node.type_exp),
                                    n.node.type_exp), n.node), n.pos)
    ELSE Ok(Adopt(cur, f.node), f.pos)

p_declarator(ts, pos, m) ==
    IF pos >= Len(ts) THEN check_pos(pos, Len(ts))
    ELSE LET cur == ParseNode_new(NT("Declarator"))
             d == SubRule("direct_declarator", ts, pos, m)
             p == SubRule("pointer", ts, pos, m)
         IN  IF IsPanic(d) THEN d
             ELSE IF IsOk(d) THEN Ok(Adopt(cur, d.node), d.pos)
             ELSE IF IsPanic(p) THEN p
             ELSE IF IsOk(p)
                  THEN LET d2 == SubRule("direct_declarator", ts, p.pos, m) IN
                       IF ~IsOk(d2) THEN d2
                       ELSE Ok(AdoptT(AdoptT(cur, p.node), d2.node), d2.pos)
             ELSE Err("Error parse declarator")

p_direct_declarator(ts, pos, m) ==
    IF pos >= Len(ts) THEN check_pos(pos, Len(ts))
    ELSE LET cur == ParseNode_new(NT("DirectDeclarator"))
             i == p_identifier(ts, pos)
             f == IF IsOk(i) THEN i
                  ELSE IF IsOk(check_tok(pos, ts, Tok("LParen"))) THEN SubRule("declarator", ts, pos + 1, m)
                  ELSE Err("Error parse direct_declarator")
         IN  IF ~IsOk(f) THEN f
             ELSE WithOptional(cur, f, SubRule("direct_declarator_post_list", ts, f.pos, m))

p_direct_declarator_post_list(ts, pos, m) ==
    IF pos >= Len(ts) THEN check_pos(pos, Len(ts))
    ELSE LET f == SubRule("direct_declarator_post", ts, pos, m) IN
         IF ~IsOk(f) THEN f
         ELSE LET l == WhileOk("direct_declarator_post", ts, f.pos,
                               AdoptT(ParseNode_new(NT("DirectDeclaratorPostList")), f.node), TRUE, m)
              IN  IF ~IsOk(l) THEN l
                  ELSE IF Len(l.node.child) = 1 THEN Ok(SetType(l.node, f.node.type_exp), l.pos)
                  ELSE l

p_direct_declarator_post(ts, pos, m) ==
    IF pos >= Len(ts) THEN check_pos(pos, Len(ts))
    ELSE LET t == At(ts, pos)
             cur == ParseNode_new(NTTok("DirectDeclaratorPost", t))
         IN  CASE t.k = "LParen" ->
                    IF IsOk(check_tok(pos + 1, ts, Tok("RParen"))) THEN Ok(cur, pos + 2)
                    ELSE LET p == SubRule("parameter_type_list", ts, pos + 1, m)
                             c == IF IsOk(p) \/ IsPanic(p) THEN p ELSE SubRule("identifier_list", ts, pos + 1, m)
                         IN  IF ~IsOk(c) THEN c
                             ELSE IF ~IsOk(check_tok(c.pos, ts, Tok("RParen")))
                                  THEN check_tok(c.pos, ts, Tok("RParen"))
                             ELSE Ok(Adopt(cur, c.node), c.pos + 1)
               [] t.k = "LBracket" ->
                    IF IsOk(check_tok(pos + 1, ts, Tok("RBracket"))) THEN Ok(cur, pos + 2)
                    ELSE LET a == SubRule("assignment_expression", ts, pos + 1, m) IN
                         IF ~IsOk(a) THEN a
                         ELSE IF ~IsOk(check_tok(a.pos, ts, Tok("RBracket")))
                              THEN check_tok(a.pos, ts, Tok("RBracket"))
                         ELSE Ok(Adopt(cur, a.node), a.pos + 1)
               [] OTHER -> error_handler("[ or (")

p_pointer(ts, pos, m) ==
    IF pos >= Len(ts) THEN check_pos(pos, Len(ts))
    ELSE IF ~IsOk(check_tok(pos, ts, Tok("Multi"))) THEN check_tok(pos, ts, Tok("Multi"))
    ELSE LET cur == SetType(ParseNode_new(NT("Pointer")), new_val(BT("Pointer")))
             q == SubRule("type_qualifier_list", ts, pos + 1, m)
             cur1 == IF IsOk(q) THEN AdoptT(cur, q.node) ELSE cur
             pos1 == IF IsOk(q) THEN q.pos ELSE pos + 1
             p == SubRule("pointer", ts, pos1, m)
         IN  IF IsOk(p) THEN Ok(AdoptT(cur1, p.node), p.pos) ELSE Ok(cur1, pos1)

p_type_qualifier_list(ts, pos, m) ==
    IF pos >= Len(ts) THEN check_pos(pos, Len(ts))
    ELSE LET f == p_type_qualifier(ts, pos) IN
         IF ~IsOk(f) THEN f
         ELSE WhileOk("type_qualifier", ts, f.pos,
                      AdoptT(ParseNode_new(NT("TypeQualifierList")), f.node), TRUE, m)

p_parameter_type_list(ts, pos, m) ==
    IF pos >= Len(ts) THEN check_pos(pos, Len(ts))
    ELSE LET l == SubRule("parameter_list", ts, pos, m)
             cur == Adopt(ParseNode_new(NTStr("ParameterTypeList", "false", "")), l.node)
         IN  IF ~IsOk(l) THEN l
             ELSE IF IsOk(check_tok(l.pos, ts, Tok("Comma")))
                  THEN IF ~IsOk(check_tok(l.pos + 1, ts, Tok("ELLIPSIS")))
                       THEN check_tok(l.pos + 1, ts, Tok("ELLIPSIS"))
                       \* the returned position is that of the ELLIPSIS token
                       ELSE Ok(TypePushVal(SetEntry(cur, NTStr("ParameterTypeList", "true", "")),
                                           BT("VaList")), l.pos + 1)
             ELSE Ok(cur, l.pos)

p_parameter_list(ts, pos, m) == CommaList("ParameterList", "parameter_declaration", ts, pos, FALSE, m)

p_parameter_declaration(ts, pos, m) ==
    IF pos >= Len(ts) THEN check_pos(pos, Len(ts))
    ELSE LET s == SubRule("declaration_specifiers", ts, pos, m) IN
         IF ~IsOk(s) THEN s
         ELSE WithOptional(ParseNode_new(NT("ParameterDeclaration")), s,
                           FirstOk(<<"declarator", "abstract_declarator">>, ts, s.pos, m))

p_identifier_list(ts, pos, m) == CommaList("IdentifierList", "identifier", ts, pos, TRUE, m)

p_type_name(ts, pos, m) ==
    IF pos >= Len(ts) THEN check_pos(pos, Len(ts))
    ELSE LET s == SubRule("specifier_qualifier_list", ts, pos, m) IN
         IF ~IsOk(s) THEN s
         ELSE WithOptional(ParseNode_new(NT("TypeName")), s, SubRule("abstract_declarator", ts, s.pos, m))

p_abstract_declarator(ts, pos, m) ==
    IF pos >= Len(ts) THEN check_pos(pos, Len(ts))
    ELSE LET cur == ParseNode_new(NT("AbstractDeclarator"))
             p == SubRule("pointer", ts, pos, m)
         IN  IF IsOk(p)
             THEN LET cur1 == SetType(Push(cur, p.node), new_val(BT("Pointer")))
                      d == SubRule("direct_abstract_declarator", ts, p.pos, m)
                  IN  IF IsPanic(d) THEN d
                      ELSE IF IsOk(d) THEN Ok(AdoptT(cur1, d.node), d.pos)
                      ELSE Ok(cur1, p.pos)
             ELSE LET d == SubRule("direct_abstract_declarator", ts, pos, m) IN
                  IF IsPanic(d) THEN d
                  ELSE IF IsOk(d) THEN Ok(Adopt(cur, d.node), d.pos)
                  ELSE Err("Error parse abstract_declarator")

p_direct_abstract_declarator(ts, pos, m) ==
    IF pos >= Len(ts) THEN check_pos(pos, Len(ts))
    ELSE LET f == SubRule("direct_abstract_declarator_block", ts, pos, m) IN
         IF ~IsOk(f) THEN f
         ELSE LET l == WhileOk("direct_abstract_declarator_block", ts, f.pos,
                               AdoptT(ParseNode_new(NT("DirectAbstractDeclarator")), f.node), TRUE, m)
              IN  IF ~IsOk(l) THEN l
                  ELSE IF Len(l.node.child) = 1 THEN Ok(SetType(l.node, f.node.type_exp), l.pos)
                  ELSE l

p_direct_abstract_declarator_block(ts, pos, m) ==
    IF pos >= Len(ts) THEN check_pos(pos, Len(ts))
    ELSE LET t == At(ts, pos)
             cur == ParseNode_new(NTTok("DirectAbstractDeclaratorBlock", t))
         IN  CASE t.k = "LParen" ->
                    IF IsOk(check_tok(pos + 1, ts, Tok("RParen"))) THEN Ok(cur, pos + 2)
                    ELSE LET a == SubRule("abstract_declarator", ts, pos + 1, m)
                             c == IF IsOk(a) \/ IsPanic(a) THEN a ELSE SubRule("parameter_type_list", ts, pos + 1, m)
                         IN  IF ~IsOk(c) THEN c
                             ELSE IF ~IsOk(check_tok(c.pos, ts, Tok("RParen")))
                                  THEN check_tok(c.pos, ts, Tok("RParen"))
                             ELSE Ok(Adopt(cur, c.node), c.pos + 1)
               [] t.k = "LBracket" ->
                    IF IsOk(check_tok(pos + 1, ts, Tok("RBracket"))) THEN Ok(cur, pos + 2)
                    ELSE LET a == SubRule("assignment_expression", ts, pos + 1, m) IN
                         IF ~IsOk(a) THEN a
                         ELSE IF ~IsOk(check_tok(a.pos, ts, Tok("RBracket")))
                              THEN check_tok(a.pos, ts, Tok("RBracket"))
                         ELSE Ok(Adopt(cur, a.node), a.pos + 1)
               [] OTHER -> error_handler("( or [")

p_initializer(ts, pos, m) ==
    IF pos >= Len(ts) THEN check_pos(pos, Len(ts))
    ELSE LET cur == ParseNode_new(NT("Initializer"))
             a == SubRule("assignment_expression", ts, pos, m)
         IN  IF IsPanic(a) THEN a
             ELSE IF IsOk(a) THEN Ok(Adopt(cur, a.node), a.pos)
             ELSE IF ~IsOk(check_tok(pos, ts, Tok("LBrace"))) THEN check_tok(pos, ts, Tok("LBrace"))
             ELSE LET l == SubRule("initializer_list", ts, pos + 1, m) IN
                  IF ~IsOk(l) THEN l
                  ELSE IF IsOk(check_tok(l.pos, ts, Tok("Comma")))
                       THEN IF ~IsOk(check_tok(l.pos + 1, ts, Tok("RBrace")))
                            THEN check_tok(l.pos + 1, ts, Tok("RBrace"))
                            \* the returned position is that of the '}' token
                            ELSE Ok(Adopt(cur, l.node), l.pos + 1)
                  ELSE IF ~IsOk(check_tok(l.pos, ts, Tok("RBrace")))
                       THEN check_tok(l.pos, ts, Tok("RBrace"))
                  ELSE Ok(Adopt(cur, l.node), l.pos + 1)

\* neither alternative of an initializer-list item matched
NoItem == [kind |-> "none", node |-> NoNode, pos |-> 0, msg |-> ""]

\* initializer | designation initializer, then type_exp.child.push(pre_type)
InitializerItem(ts, pos, cur, m) ==
    LET i == SubRule("initializer", ts, pos, m)
        d == SubRule("designation", ts, pos, m)
        i2 == SubRule("initializer", ts, d.pos, m)
    IN  IF IsPanic(i) THEN i
        ELSE IF IsOk(i) THEN Ok(AdoptT(cur, i.node), i.pos)
        ELSE IF IsPanic(d) THEN d
        ELSE IF IsOk(d)
             THEN IF ~IsOk(i2) THEN i2 ELSE Ok(AdoptT(Push(cur, d.node), i2.node), i2.pos)
        ELSE NoItem

\* loop { check_tok(pos, Comma) else break, pos = pos + 1; inc = inc + 1;
\*        item or { pos = pos - 1; break } }
InitializerLoop(ts, pos, cur, m) ==
    IF ~IsOk(check_tok(pos, ts, Tok("Comma"))) THEN Ok(cur, pos)
    ELSE LET r == InitializerItem(ts, pos + 1, cur, m) IN
         IF r.kind = "none" THEN Ok(cur, pos)
         ELSE IF ~IsOk(r) THEN r
         ELSE InitializerLoop(ts, r.pos, r.node, m)

p_initializer_list(ts, pos, m) ==
    IF pos >= Len(ts) THEN check_pos(pos, Len(ts))
    ELSE LET f == InitializerItem(ts, pos, ParseNode_new(NT("InitializerList")), m) IN
         IF f.kind = "none" THEN Err("Error parse initializer_list")
         ELSE IF ~IsOk(f) THEN f
         \* inc == 0: no comma followed the first item
         ELSE IF ~IsOk(check_tok(f.pos, ts, Tok("Comma")))
              THEN Ok(SetType(f.node, f.node.type_exp.child[1]), f.pos)
         ELSE InitializerLoop(ts, f.pos, f.node, m)

p_designation(ts, pos, m) ==
    IF pos >= Len(ts) THEN check_pos(pos, Len(ts))
    ELSE LET l == SubRule("designator_list", ts, pos, m) IN
         IF ~IsOk(l) THEN l
         ELSE IF ~IsOk(check_tok(l.pos, ts, Tok("Assign"))) THEN check_tok(l.pos, ts, Tok("Assign"))
         ELSE Ok(Adopt(ParseNode_new(NT("Designation")), l.node), l.pos + 1)

p_designator_list(ts, pos, m) ==
    IF pos >= Len(ts) THEN check_pos(pos, Len(ts))
    ELSE LET f == SubRule("designator", ts, pos, m) IN
         IF ~IsOk(f) THEN f
         ELSE LET l == WhileOk("designator", ts, f.pos,
                               AdoptT(ParseNode_new(NT("DesignatorList")), f.node), TRUE, m)
              IN  IF ~IsOk(l) THEN l
                  ELSE IF Len(l.node.child) = 1 THEN Ok(SetType(l.node, f.node.type_exp), l.pos)
                  ELSE l

p_designator(ts, pos, m) ==
    IF pos >= Len(ts) THEN check_pos(pos, Len(ts))
    ELSE LET cur == ParseNode_new(NT("Designator")) IN
         IF IsOk(check_tok(pos, ts, Tok("LBracket")))
         THEN LET c == SubRule("constant_expression", ts, pos + 1, m) IN
              IF ~IsOk(c) THEN c
              ELSE IF ~IsOk(check_tok(c.pos, ts, Tok("RBracket")))
                   THEN check_tok(c.pos, ts, Tok("RBracket"))
              ELSE Ok(Adopt(cur, c.node), c.pos + 1)
         ELSE IF ~IsOk(check_tok(pos, ts, Tok("Dot"))) THEN check_tok(pos, ts, Tok("Dot"))
         ELSE LET i == p_identifier(ts, pos + 1) IN
              IF ~IsOk(i) THEN i ELSE Ok(Adopt(cur, i.node), i.pos)

p_static_assert_declaration(ts, pos, m) ==
    IF pos >= Len(ts) THEN check_pos(pos, Len(ts))
    ELSE IF ~IsOk(check_tok(pos, ts, Tok("StaticAssert"))) THEN check_tok(pos, ts, Tok("StaticAssert"))
    ELSE IF ~IsOk(check_tok(pos + 1, ts, Tok("LParen"))) THEN check_tok(pos + 1, ts, Tok("LParen"))
    ELSE LET c == SubRule("constant_expression", ts, pos + 2, m) IN
         IF ~IsOk(c) THEN c
         ELSE IF ~IsOk(check_tok(c.pos, ts, Tok("Comma"))) THEN check_tok(c.pos, ts, Tok("Comma"))
         ELSE LET s == p_string(ts, c.pos + 1) IN
              IF ~IsOk(s) THEN s
              ELSE IF ~IsOk(check_tok(s.pos, ts, Tok("RParen"))) THEN check_tok(s.pos, ts, Tok("RParen"))
              ELSE IF ~IsOk(check_tok(s.pos + 1, ts, Tok("Semicolon")))
                   THEN check_tok(s.pos + 1, ts, Tok("Semicolon"))
              ELSE Ok(SetType(Push(Push(ParseNode_new(NT("StaticAssertDeclaration")), c.node), s.node),
                              new_val(BT("NoneExpression"))), s.pos + 2)

(***************************************************************************)
(* Statements.                                                             *)
(***************************************************************************)
NoneExpression == new_val(BT("NoneExpression"))

p_statement(ts, pos, m) ==
    IF pos >= Len(ts) THEN check_pos(pos, Len(ts))
    ELSE LET r == FirstOk(<<"labeled_statement", "compound_statement", "expression_statement",
                            "selection_statement", "iteration_statement", "jump_statement">>, ts, pos, m)
         IN  IF IsPanic(r) THEN r
             ELSE IF IsOk(r) THEN Ok(Adopt(ParseNode_new(NT("Statement")), r.node), r.pos)
             ELSE Err("Error parse statement")

p_labeled_statement(ts, pos, m) ==
    IF pos >= Len(ts) THEN check_pos(pos, Len(ts))
    ELSE LET t == At(ts, pos) IN
         CASE t.k \in {"IDENTIFIER", "DEFAULT"} ->
                LET cur == ParseNode_new(NTStr("LabeledStatement",
                                               IF t.k = "DEFAULT" THEN "default" ELSE t.v, ""))
                IN  IF ~IsOk(check_tok(pos + 1, ts, Tok("Colon"))) THEN check_tok(pos + 1, ts, Tok("Colon"))
                    ELSE LET s == SubRule("statement", ts, pos + 2, m) IN
                         IF ~IsOk(s) THEN s
                         ELSE Ok(SetType(Push(cur, s.node), NoneExpression), s.pos)
           [] t.k = "CASE" ->
                LET cur == ParseNode_new(NTStr("LabeledStatement", "case", ""))
                    c == SubRule("constant_expression", ts, pos + 1, m)
                IN  IF ~IsOk(c) THEN c
                    ELSE IF ~IsOk(check_tok(c.pos, ts, Tok("Colon"))) THEN check_tok(c.pos, ts, Tok("Colon"))
                    ELSE LET s == SubRule("statement", ts, c.pos + 1, m) IN
                         IF ~IsOk(s) THEN s
                         ELSE Ok(SetType(Push(Push(cur, c.node), s.node), NoneExpression), s.pos)
           [] OTHER -> error_handler("label")

p_compound_statement(ts, pos, m) ==
    IF pos >= Len(ts) THEN check_pos(pos, Len(ts))
    ELSE IF ~IsOk(check_tok(pos, ts, Tok("LBrace"))) THEN check_tok(pos, ts, Tok("LBrace"))
    ELSE LET cur == ParseNode_new(NT("CompoundStatement"))
             l == SubRule("block_item_list", ts, pos + 1, m)
         IN  IF IsPanic(l) THEN l
             ELSE IF IsOk(l)
                  THEN IF ~IsOk(check_tok(l.pos, ts, Tok("RBrace")))
                       THEN check_tok(l.pos, ts, Tok("RBrace"))
                       ELSE Ok(Adopt(cur, l.node), l.pos + 1)
             ELSE IF ~IsOk(check_tok(pos + 1, ts, Tok("RBrace")))
                  THEN check_tok(pos + 1, ts, Tok("RBrace"))
             ELSE Ok(SetType(cur, NoneExpression), pos + 2)

p_block_item_list(ts, pos, m) ==
    IF pos >= Len(ts) THEN check_pos(pos, Len(ts))
    ELSE LET f == SubRule("block_item", ts, pos, m) IN
         IF ~IsOk(f) THEN f
         ELSE LET l == WhileOk("block_item", ts, f.pos,
                               AdoptT(ParseNode_new(NT("BlockItemList")), f.node), TRUE, m)
              IN  IF ~IsOk(l) THEN l
                  ELSE IF Len(l.node.child) = 1 THEN Ok(SetType(l.node, f.node.type_exp), l.pos)
                  ELSE l

p_block_item(ts, pos, m) ==
    IF pos >= Len(ts) THEN check_pos(pos, Len(ts))
    ELSE LET r == FirstOk(<<"declaration", "statement">>, ts, pos, m) IN
         IF IsPanic(r) THEN r
         ELSE IF IsOk(r) THEN Ok(Adopt(ParseNode_new(NT("BlockItem")), r.node), r.pos)
         ELSE Err("Error parse block_item")

\* p_expression_statement giving `expression ;` the none marker as well
p_expression_statement_none(ts, pos, m) ==
    IF pos >= Len(ts) THEN check_pos(pos, Len(ts))
    ELSE LET cur == ParseNode_new(NT("ExpressionStatement")) IN
         IF IsOk(check_tok(pos, ts, Tok("Semicolon"))) THEN Ok(SetType(cur, NoneExpression), pos + 1)
         ELSE LET e == SubRule("expression", ts, pos, m) IN
              IF ~IsOk(e) THEN e
              ELSE IF ~IsOk(check_tok(e.pos, ts, Tok("Semicolon")))
                   THEN check_tok(e.pos, ts, Tok("Semicolon"))
              ELSE Ok(Push(SetType(cur, NoneExpression), e.node), e.pos + 1)

p_expression_statement(ts, pos, m) ==
    IF pos >= Len(ts) THEN check_pos(pos, Len(ts))
    ELSE LET cur == ParseNode_new(NT("ExpressionStatement")) IN
         IF IsOk(check_tok(pos, ts, Tok("Semicolon"))) THEN Ok(SetType(cur, NoneExpression), pos + 1)
         ELSE LET e == SubRule("expression", ts, pos, m) IN
              IF ~IsOk(e) THEN e
              ELSE IF ~IsOk(check_tok(e.pos, ts, Tok("Semicolon")))
                   THEN check_tok(e.pos, ts, Tok("Semicolon"))
              ELSE Ok(Adopt(cur, e.node), e.pos + 1)

\* '(' expression ')' statement, the shared tail of if / switch / while
ParenExprStatement(cur, ts, pos, m) ==
    IF ~IsOk(check_tok(pos, ts, Tok("LParen"))) THEN check_tok(pos, ts, Tok("LParen"))
    ELSE LET e == SubRule("expression", ts, pos + 1, m) IN
         IF ~IsOk(e) THEN e
         ELSE IF ~IsOk(check_tok(e.pos, ts, Tok("RParen"))) THEN check_tok(e.pos, ts, Tok("RParen"))
         ELSE LET s == SubRule("statement", ts, e.pos + 1, m) IN
              IF ~IsOk(s) THEN s
              ELSE Ok(Push(Push(cur, e.node), s.node), s.pos)

p_selection_statement(ts, pos, m) ==
    IF pos >= Len(ts) THEN check_pos(pos, Len(ts))
    ELSE LET t == At(ts, pos)
             cur == ParseNode_new(NTTok("SelectionStatement", t))
             b == ParenExprStatement(cur, ts, pos + 1, m)
         IN  CASE t.k = "IF" ->
                    IF ~IsOk(b) THEN b
                    ELSE IF IsOk(check_tok(b.pos, ts, Tok("ELSE")))
                         THEN LET s == SubRule("statement", ts, b.pos + 1, m) IN
                              IF ~IsOk(s) THEN s
                              ELSE Ok(SetType(Push(b.node, s.node), NoneExpression), s.pos)
                    ELSE Ok(SetType(b.node, NoneExpression), b.pos)
               [] t.k = "SWITCH" ->
                    IF ~IsOk(b) THEN b ELSE Ok(SetType(b.node, NoneExpression), b.pos)
               [] OTHER -> error_handler("[if, switch]")

\* FOR '(' first expression_statement [expression] ')' statement, after first was parsed
ForTail(cur, ts, pos, m) ==
    LET c == SubRule("expression_statement", ts, pos, m) IN
    IF ~IsOk(c) THEN c
    ELSE IF IsOk(check_tok(c.pos, ts, Tok("RParen")))
         THEN LET s == SubRule("statement", ts, c.pos + 1, m) IN
              IF ~IsOk(s) THEN s
              ELSE Ok(SetType(Push(Push(cur, c.node), s.node), NoneExpression), s.pos)
    ELSE LET e == SubRule("expression", ts, c.pos, m) IN
         IF ~IsOk(e) THEN e
         ELSE IF ~IsOk(check_tok(e.pos, ts, Tok("RParen"))) THEN check_tok(e.pos, ts, Tok("RParen"))
         ELSE LET s == SubRule("statement", ts, e.pos + 1, m) IN
              IF ~IsOk(s) THEN s
              ELSE Ok(SetType(Push(Push(Push(cur, c.node), e.node), s.node), NoneExpression), s.pos)

p_iteration_statement(ts, pos, m) ==
    IF pos >= Len(ts) THEN check_pos(pos, Len(ts))
    ELSE LET t == At(ts, pos)
             cur == ParseNode_new(NTTok("IterationStatement", t))
         IN  CASE t.k = "WHILE" ->
                    LET b == ParenExprStatement(cur, ts, pos + 1, m) IN
                    IF ~IsOk(b) THEN b ELSE Ok(SetType(b.node, NoneExpression), b.pos)
               [] t.k = "DO" ->
                    LET s == SubRule("statement", ts, pos + 1, m) IN
                    IF ~IsOk(s) THEN s
                    ELSE IF ~IsOk(check_tok(s.pos, ts, Tok("WHILE"))) THEN check_tok(s.pos, ts, Tok("WHILE"))
                    ELSE IF ~IsOk(check_tok(s.pos + 1, ts, Tok("LParen")))
                         THEN check_tok(s.pos + 1, ts, Tok("LParen"))
                    ELSE LET e == SubRule("expression", ts, s.pos + 2, m) IN
                         IF ~IsOk(e) THEN e
                         ELSE IF ~IsOk(check_tok(e.pos, ts, Tok("RParen")))
                              THEN check_tok(e.pos, ts, Tok("RParen"))
                         ELSE IF ~IsOk(check_tok(e.pos + 1, ts, Tok("Semicolon")))
                              THEN check_tok(e.pos + 1, ts, Tok("Semicolon"))
                         ELSE Ok(SetType(Push(Push(cur, s.node), e.node), NoneExpression), e.pos + 2)
               [] t.k = "FOR" ->
                    IF ~IsOk(check_tok(pos + 1, ts, Tok("LParen")))
                    THEN check_tok(pos + 1, ts, Tok("LParen"))
                    ELSE LET f == FirstOk(<<"expression_statement", "declaration">>, ts, pos + 2, m) IN
                         IF IsPanic(f) THEN f
                         ELSE IF ~IsOk(f) THEN Err("Error parse For")
                         ELSE ForTail(Push(cur, f.node), ts, f.pos, m)
               [] OTHER -> error_handler("[while, do, for]")

p_jump_statement(ts, pos, m) ==
    IF pos >= Len(ts) THEN check_pos(pos, Len(ts))
    ELSE LET t == At(ts, pos) IN
         CASE t.k = "GOTO" ->
                IF pos + 1 >= Len(ts) THEN check_pos(pos + 1, Len(ts))
                ELSE IF At(ts, pos + 1).k # "IDENTIFIER" THEN error_handler("identifier for goto ")
                ELSE IF ~IsOk(check_tok(pos + 2, ts, Tok("Semicolon")))
                     THEN check_tok(pos + 2, ts, Tok("Semicolon"))
                ELSE Ok(SetType(ParseNode_new(NTStr("JumpStatement", "goto", At(ts, pos + 1).v)),
                                NoneExpression), pos + 3)
           [] t.k \in {"CONTINUE", "BREAK"} ->
                IF ~IsOk(check_tok(pos + 1, ts, Tok("Semicolon")))
                THEN check_tok(pos + 1, ts, Tok("Semicolon"))
                ELSE Ok(SetType(ParseNode_new(NTStr("JumpStatement",
                                    IF t.k = "BREAK" THEN "break" ELSE "continue", "")),
                                NoneExpression), pos + 2)
           [] t.k = "RETURN" ->
                LET cur == ParseNode_new(NTStr("JumpStatement", "return", "")) IN
                IF IsOk(check_tok(pos + 1, ts, Tok("Semicolon")))
                THEN Ok(SetType(cur, NoneExpression), pos + 2)
                ELSE LET e == SubRule("expression", ts, pos + 1, m) IN
                     IF ~IsOk(e) THEN e
                     \* let pos = pos + 1, whatever token follows the expression
                     ELSE Ok(Adopt(cur, e.node), e.pos + 1)
           [] OTHER -> error_handler("[goto, continue, break, return]")

(***************************************************************************)
(* External definitions.                                                   *)
(***************************************************************************)
\* an external-declaration rule that recovers from a failure by skipping one token
p_external_declaration_skip(ts, pos, m) ==
    IF pos >= Len(ts) THEN check_pos(pos, Len(ts))
    ELSE LET cur == ParseNode_new(NT("ExternalDeclaration"))
             f == SubRule("function_definition", ts, pos, m)
         IN  IF IsPanic(f) THEN f
             ELSE IF IsOk(f) THEN Ok(Adopt(cur, f.node), f.pos)
             ELSE LET d == SubRule("declaration", ts, pos, m) IN
                  IF IsPanic(d) THEN d
                  ELSE IF ~IsOk(d) THEN Ok(cur, pos + 1)
                  ELSE Ok(Adopt(cur, d.node), d.pos)

p_external_declaration(ts, pos, m) ==
    IF pos >= Len(ts) THEN check_pos(pos, Len(ts))
    ELSE LET cur == ParseNode_new(NT("ExternalDeclaration"))
             f == SubRule("function_definition", ts, pos, m)
         IN  IF IsPanic(f) THEN f
             ELSE IF IsOk(f) THEN Ok(Adopt(cur, f.node), f.pos)
             ELSE LET d == SubRule("declaration", ts, pos, m) IN
                  IF ~IsOk(d) THEN d ELSE Ok(Adopt(cur, d.node), d.pos)

p_function_definition(ts, pos, m) ==
    IF pos >= Len(ts) THEN check_pos(pos, Len(ts))
    ELSE LET cur == SetType(ParseNode_new(NT("FunctionDefinition")), new_val(BT("Function")))
             s == SubRule("declaration_specifiers", ts, pos, m)
             d == SubRule("declarator", ts, s.pos, m)
             l == SubRule("declaration_list", ts, d.pos, m)
             cur1 == AdoptT(AdoptT(cur, s.node), d.node)
             cur2 == IF IsOk(l) THEN AdoptT(cur1, l.node) ELSE cur1
             c == SubRule("compound_statement", ts, IF IsOk(l) THEN l.pos ELSE d.pos, m)
         IN  IF ~IsOk(s) THEN s
             ELSE IF ~IsOk(d) THEN d
             ELSE IF IsPanic(l) THEN l
             ELSE IF ~IsOk(c) THEN c
             ELSE Ok(AdoptT(cur2, c.node), c.pos)

p_declaration_list(ts, pos, m) ==
    IF pos >= Len(ts) THEN check_pos(pos, Len(ts))
    ELSE LET f == SubRule("declaration", ts, pos, m) IN
         IF ~IsOk(f) THEN f
         ELSE LET l == WhileOk("declaration", ts, f.pos,
                               AdoptT(ParseNode_new(NT("DeclarationList")), f.node), TRUE, m)
              IN  IF ~IsOk(l) THEN l
                  ELSE IF Len(l.node.child) = 1 THEN Ok(SetType(l.node, f.node.type_exp), l.pos)
                  ELSE l
(***************************************************************************)
(* Call by rule name: the function a call site names (p_<which>).          *)
(***************************************************************************)
Eval(which, ts, pos, m) ==
    CASE which = "identifier" -> p_identifier(ts, pos)
      [] which = "primary_expression" -> p_primary_expression(ts, pos, m)
      [] which = "constant" -> p_constant(ts, pos)
      [] which = "enumeration_constant" -> p_enumeration_constant(ts, pos)
      [] which = "string" -> p_string(ts, pos)
      [] which = "generic_selection" -> p_generic_selection(ts, pos, m)
      [] which = "generic_assoc_list" -> p_generic_assoc_list(ts, pos, m)
      [] which = "generic_association" -> p_generic_association(ts, pos, m)
      [] which = "postfix_expression" -> p_postfix_expression(ts, pos, m)
      [] which = "postfix_expression_post" -> p_postfix_expression_post(ts, pos, m)
      [] which = "argument_expression_list" -> p_argument_expression_list(ts, pos, m)
      [] which = "unary_expression" -> p_unary_expression(ts, pos, m)
      [] which = "unary_operator" -> p_unary_operator(ts, pos)
      [] which = "cast_expression" -> p_cast_expression(ts, pos, m)
      [] which = "multiplicative_expression" -> p_multiplicative_expression(ts, pos, m)
      [] which = "additive_expression" -> p_additive_expression(ts, pos, m)
      [] which = "shift_expression" -> p_shift_expression(ts, pos, m)
      [] which = "relational_expression" -> p_relational_expression(ts, pos, m)
      [] which = "equality_expression" -> p_equality_expression(ts, pos, m)
      [] which = "and_expression" -> p_and_expression(ts, pos, m)
      [] which = "exclusive_or_expression" -> p_exclusive_or_expression(ts, pos, m)
      [] which = "inclusive_or_expression" -> p_inclusive_or_expression(ts, pos, m)
      [] which = "logical_and_expression" -> p_logical_and_expression(ts, pos, m)
      [] which = "logical_or_expression" -> p_logical_or_expression(ts, pos, m)
      [] which = "conditional_expression" -> p_conditional_expression(ts, pos, m)
      [] which = "assignment_expression" -> p_assignment_expression(ts, pos, m)
      [] which = "assignment_operator" -> p_assignment_operator(ts, pos)
      [] which = "expression" -> p_expression(ts, pos, m)
      [] which = "constant_expression" -> p_constant_expression(ts, pos, m)
      [] which = "declaration" -> p_declaration(ts, pos, m)
      [] which = "declaration_specifiers" -> p_declaration_specifiers(ts, pos, m)
      [] which = "init_declarator_list" -> p_init_declarator_list(ts, pos, m)
      [] which = "init_declarator" -> p_init_declarator(ts, pos, m)
      [] which = "storage_class_specifier" -> p_storage_class_specifier(ts, pos)
      [] which = "type_specifier" -> p_type_specifier(ts, pos, m)
      [] which = "struct_or_union_specifier" -> p_struct_or_union_specifier(ts, pos, m)
      [] which = "struct_or_union" -> p_struct_or_union(ts, pos)
      [] which = "struct_declaration_list" -> p_struct_declaration_list(ts, pos, m)
      [] which = "struct_declaration" -> p_struct_declaration(ts, pos, m)
      [] which = "specifier_qualifier_list" -> p_specifier_qualifier_list(ts, pos, m)
      [] which = "struct_declarator_list" -> p_struct_declarator_list(ts, pos, m)
      [] which = "struct_declarator" -> p_struct_declarator(ts, pos, m)
      [] which = "enum_specifier" -> p_enum_specifier(ts, pos, m)
      [] which = "enumerator_list" -> p_enumerator_list(ts, pos, m)
      [] which = "enumerator" -> p_enumerator(ts, pos, m)
      [] which = "atomic_type_specifier" -> p_atomic_type_specifier(ts, pos, m)
      [] which = "type_qualifier" -> p_type_qualifier(ts, pos)
      [] which = "function_specifier" -> p_function_specifier(ts, pos)
      [] which = "alignment_specifier" -> p_alignment_specifier(ts, pos, m)
      [] which = "declarator" -> p_declarator(ts, pos, m)
      [] which = "direct_declarator" -> p_direct_declarator(ts, pos, m)
      [] which = "direct_declarator_post_list" -> p_direct_declarator_post_list(ts, pos, m)
      [] which = "direct_declarator_post" -> p_direct_declarator_post(ts, pos, m)
      [] which = "pointer" -> p_pointer(ts, pos, m)
      [] which = "type_qualifier_list" -> p_type_qualifier_list(ts, pos, m)
      [] which = "parameter_type_list" -> p_parameter_type_list(ts, pos, m)
      [] which = "parameter_list" -> p_parameter_list(ts, pos, m)
      [] which = "parameter_declaration" -> p_parameter_declaration(ts, pos, m)
      [] which = "identifier_list" -> p_identifier_list(ts, pos, m)
      [] which = "type_name" -> p_type_name(ts, pos, m)
      [] which = "abstract_declarator" -> p_abstract_declarator(ts, pos, m)
      [] which = "direct_abstract_declarator" -> p_direct_abstract_declarator(ts, pos, m)
      [] which = "direct_abstract_declarator_block" -> p_direct_abstract_declarator_block(ts, pos, m)
      [] which = "initializer" -> p_initializer(ts, pos, m)
      [] which = "initializer_list" -> p_initializer_list(ts, pos, m)
      [] which = "designation" -> p_designation(ts, pos, m)
      [] which = "designator_list" -> p_designator_list(ts, pos, m)
      [] which = "designator" -> p_designator(ts, pos, m)
      [] which = "static_assert_declaration" -> p_static_assert_declaration(ts, pos, m)
      [] which = "statement" -> p_statement(ts, pos, m)
      [] which = "labeled_statement" -> p_labeled_statement(ts, pos, m)
      [] which = "compound_statement" -> p_compound_statement(ts, pos, m)
      [] which = "block_item_list" -> p_block_item_list(ts, pos, m)
      [] which = "block_item" -> p_block_item(ts, pos, m)
      [] which = "expression_statement" -> p_expression_statement(ts, pos, m)
      [] which = "selection_statement" -> p_selection_statement(ts, pos, m)
      [] which = "iteration_statement" -> p_iteration_statement(ts, pos, m)
      [] which = "jump_statement" -> p_jump_statement(ts, pos, m)
      [] which = "external_declaration" -> p_external_declaration(ts, pos, m)
      [] which = "function_definition" -> p_function_definition(ts, pos, m)
      [] which = "declaration_list" -> p_declaration_list(ts, pos, m)

(***************************************************************************)
(* Calls are evaluated through a table of results already computed: one    *)
(* row per position, each row a function from rule name to the result of   *)
(* p_<rule>(toks, position).  m.here is the row being filled for position  *)
(* m.pos, m.later the finished rows for the positions after it.  A call    *)
(* whose result is not in the table is evaluated directly, so the table    *)
(* never changes a result: it only keeps the evaluation shallow.           *)
(***************************************************************************)
Absent == [kind |-> "absent", node |-> NoNode, pos |-> 0, msg |-> ""]

\* the grammar functions, callees before their same-position callers
RuleOrder ==
    << "identifier", "struct_or_union_specifier", "enumerator",
       "enumerator_list", "enum_specifier", "atomic_type_specifier",
       "type_specifier", "type_qualifier", "specifier_qualifier_list",
       "type_qualifier_list", "pointer", "direct_abstract_declarator_block",
       "direct_abstract_declarator", "abstract_declarator", "type_name",
       "generic_association", "generic_assoc_list", "generic_selection",
       "primary_expression", "constant", "enumeration_constant", "string",
       "postfix_expression_post", "postfix_expression", "unary_expression",
       "cast_expression", "multiplicative_expression", "additive_expression",
       "shift_expression", "relational_expression", "equality_expression",
       "and_expression", "exclusive_or_expression",
       "inclusive_or_expression", "logical_and_expression",
       "logical_or_expression", "conditional_expression",
       "assignment_expression", "argument_expression_list", "unary_operator",
       "assignment_operator", "expression", "constant_expression",
       "storage_class_specifier", "function_specifier",
       "alignment_specifier", "declaration_specifiers",
       "parameter_declaration", "parameter_list", "parameter_type_list",
       "identifier_list", "direct_declarator_post",
       "direct_declarator_post_list", "direct_declarator", "declarator",
       "initializer", "init_declarator", "init_declarator_list",
       "static_assert_declaration", "declaration", "struct_or_union",
       "struct_declarator", "struct_declarator_list", "struct_declaration",
       "struct_declaration_list", "designator", "designator_list",
       "designation", "initializer_list", "labeled_statement",
       "compound_statement", "expression_statement", "selection_statement",
       "iteration_statement", "jump_statement", "statement", "block_item",
       "block_item_list", "declaration_list", "function_definition",
       "external_declaration" >>

RuleNames == {RuleOrder[i] : i \in 1..Len(RuleOrder)}
EmptyRow == [r \in RuleNames |-> Absent]

SubRule(which, ts, pos, m) ==
    IF pos = m.pos /\ m.here[which].kind # "absent" THEN m.here[which]
    ELSE IF pos - m.pos \in DOMAIN m.later THEN m.later[pos - m.pos][which]
    ELSE Eval(which, ts, pos, m)

RECURSIVE FillRow(_, _, _, _), Rows(_, _)
\* the row of m.pos with the rules RuleOrder[lo..hi] added, in order
FillRow(ts, lo, hi, m) ==
    IF lo = hi
    THEN [m EXCEPT !.here[RuleOrder[lo]] = Eval(RuleOrder[lo], ts, m.pos, m)]
    ELSE LET mid == (lo + hi) \div 2
             left == FillRow(ts, lo, mid, m)
         IN <<left, FillRow(ts, mid + 1, hi, left)>>[2]

\* the rows of positions pos .. Len(ts), the last position first; a position
\* past the end has a row of its own and nothing after it
Rows(ts, pos) ==
    LET later == IF pos >= Len(ts) THEN <<>> ELSE Rows(ts, pos + 1)
        row == FillRow(ts, 1, Len(RuleOrder), [pos |-> pos, here |-> EmptyRow, later |-> later])
    IN <<later, <<row.here>> \o later>>[2]

\* p_<which>(ts, pos), called from outside the grammar
Parse(which, ts, pos) == Rows(ts, pos)[1][which]

\* the grammar functions are pure: what p_<which>(toks, pos) returns is fixed once toks is,
\* and results holds it for every function and every position a call starts from
Returned(which, pos) == results[pos + 1][which]


(***************************************************************************)
(* Token streams the parser is run on.  Each case names the calls made on  *)
(* it: parser_driver for whole files, single grammar functions otherwise.  *)
(***************************************************************************)
MaxUnits == 2
MaxOps == 2

RECURSIVE UnitSeqs(_), Chains(_, _)

K(ks) == [i \in 1..Len(ks) |-> Tok(ks[i])]

\* int y = 1 ;   int f ( ) { return x ; }
DriverUnits ==
    { K(<<"INT">>) \o <<Ident("y")>> \o K(<<"Assign">>) \o <<IConst("1")>> \o K(<<"Semicolon">>),
      K(<<"INT">>) \o <<Ident("f")>> \o K(<<"LParen", "RParen", "LBrace", "RETURN">>)
          \o <<Ident("x")>> \o K(<<"Semicolon", "RBrace">>) }

\* token runs that do not form an external declaration
Garbage ==
    { K(<<"RParen">>), <<IConst("1")>>, <<Ident("z"), Tok("Semicolon")>>, K(<<"Semicolon">>),
      K(<<"Plus">>) \o <<IConst("1")>>, K(<<"INT">>) \o <<Ident("z")>>,
      K(<<"INT">>) \o <<Ident("z")>> \o K(<<"Assign">>) \o <<IConst("1")>> }

UnitSeqs(n) ==
    IF n = 0 THEN {<<>>}
    ELSE UnitSeqs(n - 1) \cup {s \o u : s \in UnitSeqs(n - 1), u \in DriverUnits}

HasTrailingGarbage(ts) ==
    \E u \in UnitSeqs(MaxUnits) \ {<<>>} : \E g \in Garbage : ts = u \o g

Case(fam, ts, calls) == [family |-> fam, toks |-> ts, probes |-> calls]

DriverCases ==
    {Case("driver", u \o g, {}) : u \in UnitSeqs(MaxUnits), g \in Garbage \cup {<<>>}}

CascadeLevels ==
    << [rule |-> "multiplicative_expression", ops |-> MultiplicativeOps],
       [rule |-> "additive_expression", ops |-> AdditiveOps],
       [rule |-> "shift_expression", ops |-> ShiftOps],
       [rule |-> "relational_expression", ops |-> RelationalOps],
       [rule |-> "equality_expression", ops |-> EqualityOps],
       [rule |-> "and_expression", ops |-> {"SingleAnd"}],
       [rule |-> "exclusive_or_expression", ops |-> {"ExclusiveOr"}],
       [rule |-> "inclusive_or_expression", ops |-> {"InclusiveOr"}],
       [rule |-> "logical_and_expression", ops |-> {"AndOp"}],
       [rule |-> "logical_or_expression", ops |-> {"OrOp"}] >>

Digits == <<"1", "2", "3", "4", "5">>
Operand(i, kind) == IF kind = "I" THEN IConst(Digits[i]) ELSE FConst(Digits[i] \o ".5")

\* operand { op operand } with n operators of one level, operand i carrying lexeme i
Chains(ops, n) ==
    IF n = 0 THEN {<<Operand(1, k)>> : k \in {"I", "F"}}
    ELSE {c \o <<Tok(op), Operand(n + 1, k)>> : c \in Chains(ops, n - 1), op \in ops, k \in {"I", "F"}}

CascadeCases ==
    UNION {{Case("cascade", c \o K(<<"Semicolon">>),
                 {<<CascadeLevels[l].rule, 0>>}) :
                c \in Chains(CascadeLevels[l].ops, n)} :
           l \in 1..Len(CascadeLevels), n \in 1..MaxOps}

\* ( type-name ) operand ;
CastTypeNames ==
    { K(<<"INT">>), K(<<"DOUBLE">>), K(<<"VOID">>), K(<<"INT", "Multi">>),
      K(<<"STRUCT">>) \o <<Ident("s")>> }
CastOperands ==
    { <<IConst("1")>>, <<FConst("1.5")>>, <<Ident("x")>>, <<StrLit("s")>>,
      K(<<"LParen">>) \o <<IConst("1")>> \o K(<<"RParen">>) }

CastCases ==
    {Case("cast", K(<<"LParen">>) \o t \o K(<<"RParen">>) \o o \o K(<<"Semicolon">>),
          {<<"cast_expression", 0>>, <<"cast_expression", Len(t) + 2>>, <<"type_name", 1>>,
           <<"expression_statement", 0>>}) :
       t \in CastTypeNames, o \in CastOperands}

\* f ( a , b , )
CallWithTrailingComma ==
    <<Ident("f"), Tok("LParen"), Ident("a"), Tok("Comma"), Ident("b"), Tok("Comma"), Tok("RParen")>>

\* item , item , closer : the list rule is called on the first item
ListCase(rule_, first, items, closer) ==
    Case("list", first \o items \o K(<<closer>>), {<<rule_, Len(first)>>})

IdPair == <<Ident("a"), Tok("Comma"), Ident("b"), Tok("Comma")>>

ListCases ==
    { ListCase("argument_expression_list", <<Ident("f"), Tok("LParen")>>, IdPair, "RParen"),
      ListCase("argument_expression_list", <<>>, IdPair, "RParen"),
      ListCase("argument_expression_list", <<>>, <<Ident("a"), Tok("Comma")>>, "RParen"),
      ListCase("expression", <<>>, IdPair, "Semicolon"),
      ListCase("expression", <<>>, <<IConst("1"), Tok("Comma")>>, "RParen"),
      ListCase("init_declarator_list", K(<<"INT">>), IdPair, "Semicolon"),
      ListCase("struct_declarator_list", K(<<"INT">>), IdPair, "Semicolon"),
      ListCase("enumerator_list", K(<<"ENUM", "LBrace">>), IdPair, "RBrace"),
      ListCase("identifier_list", <<Ident("f"), Tok("LParen")>>, IdPair, "RParen"),
      ListCase("parameter_list", <<Ident("f"), Tok("LParen")>>,
               K(<<"INT">>) \o <<Ident("a")>> \o K(<<"Comma", "DOUBLE">>) \o <<Ident("b")>>
                   \o K(<<"Comma">>), "RParen"),
      ListCase("generic_assoc_list", <<>>,
               K(<<"INT", "Colon">>) \o <<IConst("1")>> \o K(<<"Comma", "DEFAULT", "Colon">>)
                   \o <<IConst("2")>> \o K(<<"Comma">>), "RParen"),
      ListCase("initializer_list", K(<<"LBrace">>),
               <<IConst("1"), Tok("Comma"), IConst("2"), Tok("Comma")>>, "RBrace") }

StatementRuns ==
    { K(<<"RETURN">>) \o <<Ident("x")>> \o K(<<"Semicolon">>),
      K(<<"RETURN", "Semicolon">>),
      K(<<"RETURN">>) \o <<Ident("x")>> \o K(<<"Comma">>),
      K(<<"RETURN">>) \o <<Ident("x")>> \o K(<<"RBrace">>),
      K(<<"RETURN">>) \o <<Ident("x")>>,
      <<Ident("x")>> \o K(<<"Assign">>) \o <<IConst("1")>> \o K(<<"Semicolon">>),
      <<Ident("x")>> \o K(<<"Assign">>) \o <<IConst("1")>>,
      K(<<"LBrace">>) \o <<Ident("x")>> \o K(<<"IncOp", "Semicolon", "RBrace">>),
      K(<<"LBrace", "RBrace">>),
      K(<<"IF", "LParen">>) \o <<Ident("x")>> \o K(<<"RParen", "Semicolon", "ELSE", "Semicolon">>),
      K(<<"WHILE", "LParen">>) \o <<IConst("1")>> \o K(<<"RParen", "BREAK", "Semicolon">>),
      K(<<"DO", "CONTINUE", "Semicolon", "WHILE", "LParen">>) \o <<Ident("x")>>
          \o K(<<"RParen", "Semicolon">>),
      K(<<"FOR", "LParen", "Semicolon", "Semicolon", "RParen", "Semicolon">>),
      K(<<"GOTO">>) \o <<Ident("L")>> \o K(<<"Semicolon">>),
      <<Ident("L")>> \o K(<<"Colon", "Semicolon">>),
      K(<<"SWITCH", "LParen">>) \o <<Ident("x")>> \o K(<<"RParen", "LBrace", "CASE">>)
          \o <<IConst("1")>> \o K(<<"Colon", "Semicolon", "DEFAULT", "Colon", "Semicolon", "RBrace">>),
      K(<<"SIZEOF">>) \o <<Ident("x")>> \o K(<<"Semicolon">>),
      K(<<"SIZEOF">>),
      K(<<"ALIGNOF">>),
      <<Ident("x")>> \o K(<<"QuestionMark">>) \o <<IConst("1")>> \o K(<<"Colon">>)
          \o <<IConst("2")>> \o K(<<"Semicolon">>),
      <<IConst("1")>> }

StatementCases ==
    {Case("statement", s,
          {<<"statement", 0>>, <<"jump_statement", 0>>, <<"block_item", 0>>,
           <<"multiplicative_expression", Len(s) - 1>>, <<"statement", Len(s)>>}) :
       s \in StatementRuns}

DeclarationRuns ==
    { K(<<"INT", "Multi">>) \o <<Ident("a")>> \o K(<<"LBracket">>) \o <<IConst("3")>>
          \o K(<<"RBracket", "Semicolon">>),
      K(<<"STATIC", "CONST", "INT">>) \o <<Ident("x")>> \o K(<<"Assign">>) \o <<IConst("1")>>
          \o K(<<"Comma">>) \o <<Ident("y")>> \o K(<<"Semicolon">>),
      K(<<"STRUCT">>) \o <<Ident("s")>> \o K(<<"LBrace", "INT">>) \o <<Ident("x")>>
          \o K(<<"Semicolon", "RBrace">>) \o <<Ident("v")>> \o K(<<"Semicolon">>),
      K(<<"STRUCT", "LBrace", "INT">>) \o <<Ident("x")>> \o K(<<"Semicolon", "RBrace", "Semicolon">>),
      K(<<"ENUM">>) \o <<Ident("E")>> \o K(<<"LBrace">>) \o <<Ident("A")>> \o K(<<"RBrace", "Semicolon">>),
      K(<<"ENUM">>) \o <<Ident("E")>> \o <<Ident("v")>> \o K(<<"Semicolon">>),
      K(<<"ENUM">>),
      K(<<"INT">>) \o <<Ident("f")>> \o K(<<"LParen", "INT">>) \o <<Ident("a")>>
          \o K(<<"Comma", "ELLIPSIS", "RParen", "Semicolon">>),
      K(<<"TYPEDEF", "INT">>) \o <<Ident("t")>> \o K(<<"Semicolon">>),
      K(<<"StaticAssert", "LParen">>) \o <<IConst("1")>> \o K(<<"Comma">>) \o <<StrLit("m")>>
          \o K(<<"RParen", "Semicolon">>),
      K(<<"INT">>) \o <<Ident("a")>> \o K(<<"Assign", "LBrace">>) \o <<IConst("1")>>
          \o K(<<"Comma", "RBrace", "Semicolon">>),
      K(<<"DOUBLE">>) \o <<Ident("d")>> \o K(<<"Assign">>) \o <<IConst("1")>> \o K(<<"Semicolon">>),
      K(<<"INT">>) \o <<Ident("x")>> }

DeclarationCases ==
    {Case("declaration", s,
          {<<"declaration", 0>>, <<"external_declaration", 0>>, <<"declaration_specifiers", 0>>,
           <<"type_name", 0>>}) :
       s \in DeclarationRuns}

\* condition ? true-branch : false-branch, alone or followed by ;
TernaryConditions ==
    { <<IConst("1")>>, <<FConst("1.0")>>, <<StrLit("s")>>,
      <<IConst("1"), Tok("Lt"), IConst("2")>>, K(<<"SIZEOF">>) \o <<Ident("x")>> }
TernaryTrueBranches == { <<IConst("2")>>, <<FConst("2.0")>>, K(<<"RParen">>) }
TernaryFalseBranches == { <<IConst("3")>>, <<FConst("3.0")>> }

TernaryCases ==
    {Case("ternary", c \o K(<<"QuestionMark">>) \o a \o K(<<"Colon">>) \o b \o tail,
          {<<"conditional_expression", 0>>}) :
       c \in TernaryConditions, a \in TernaryTrueBranches, b \in TernaryFalseBranches,
       tail \in {<<>>, K(<<"Semicolon">>)}}

\* one operand with no operator after it, alone or followed by ; or )
SingleOperands ==
    { <<IConst("1")>>, <<FConst("1.5")>>, <<Ident("x")>>, <<StrLit("s")>>, <<StrLit("café")>>,
      K(<<"SIZEOF">>) \o <<Ident("x")>>, K(<<"Minus">>) \o <<IConst("1")>>,
      K(<<"SingleAnd">>) \o <<Ident("x")>>, K(<<"SingleAnd">>) \o <<IConst("1")>>,
      K(<<"Multi">>) \o <<Ident("p")>>, K(<<"Multi">>) \o <<FConst("1.5")>>,
      K(<<"LParen">>) \o <<IConst("1")>> \o K(<<"RParen">>) }

SingleChainRules ==
    << "cast_expression", "multiplicative_expression", "additive_expression",
       "shift_expression", "relational_expression", "equality_expression", "and_expression",
       "exclusive_or_expression", "inclusive_or_expression", "logical_and_expression",
       "logical_or_expression", "conditional_expression", "assignment_expression",
       "constant_expression" >>

SingleCases ==
    {Case("single", o \o tail,
          {<<SingleChainRules[i], 0>> : i \in 1..Len(SingleChainRules)}
              \cup {<<"unary_expression", 0>>, <<"primary_expression", 0>>, <<"constant", 0>>}) :
       o \in SingleOperands, tail \in {<<>>, K(<<"Semicolon">>), K(<<"RParen">>)}}

\* left-hand side, assignment operator, right-hand side, and what follows
AssignmentRuns ==
    { <<Ident("x"), Tok("Assign"), IConst("1"), Tok("Semicolon")>>,
      <<Ident("x"), Tok("Assign"), IConst("1")>>,
      <<Ident("x"), Tok("Assign"), Ident("y"), Tok("Assign"), FConst("2.5"), Tok("Semicolon")>>,
      <<Ident("x"), Tok("AddAssign"), FConst("1.5"), Tok("Semicolon")>>,
      <<IConst("1"), Tok("Assign"), FConst("2.5"), Tok("Semicolon")>>,
      <<FConst("2.5"), Tok("Assign"), IConst("1"), Tok("Semicolon")>>,
      <<StrLit("s"), Tok("Assign"), IConst("1"), Tok("Semicolon")>>,
      <<IConst("1"), Tok("Assign"), StrLit("s"), Tok("Semicolon")>>,
      <<Ident("x"), Tok("Assign"), Tok("Semicolon")>>,
      <<Ident("x"), Tok("Assign")>>,
      <<Ident("x"), Tok("Assign"), Tok("RParen"), Tok("Semicolon")>>,
      <<Ident("x"), Tok("Assign"), IConst("1"), Tok("QuestionMark"), IConst("2"), Tok("Colon"),
        IConst("3"), Tok("Semicolon")>>,
      <<Ident("x"), Tok("Assign"), IConst("1"), Tok("QuestionMark"), IConst("2"), Tok("Colon"),
        FConst("3.5"), Tok("Semicolon")>>,
      <<IConst("1"), Tok("Plus"), IConst("2"), Tok("Assign"), IConst("3"), Tok("Semicolon")>>,
      <<IConst("1"), Tok("Plus"), FConst("2.5"), Tok("Semicolon")>>,
      <<Tok("Semicolon")>> }

AssignmentCases ==
    {Case("assignment", s, {<<"assignment_expression", 0>>, <<"assignment_expression", 2>>}) :
       s \in AssignmentRuns}

\* sizeof unary-expression ;  sizeof ( type-name ) ;  _Alignof ( type-name ) ;
SizeofRuns ==
    { K(<<"SIZEOF">>) \o <<Ident("x")>> \o K(<<"Semicolon">>),
      K(<<"SIZEOF">>) \o <<FConst("1.5")>> \o K(<<"Semicolon">>),
      K(<<"SIZEOF", "SIZEOF">>) \o <<Ident("x")>> \o K(<<"Semicolon">>),
      K(<<"SIZEOF", "LParen">>) \o <<Ident("x")>> \o K(<<"RParen", "Semicolon">>),
      K(<<"SIZEOF", "LParen", "INT", "RParen", "Semicolon">>),
      K(<<"SIZEOF", "LParen", "DOUBLE", "RParen", "Semicolon">>),
      K(<<"SIZEOF", "LParen", "INT", "Multi", "RParen", "Semicolon">>),
      K(<<"ALIGNOF", "LParen", "INT", "RParen", "Semicolon">>),
      K(<<"ALIGNOF", "LParen", "DOUBLE", "RParen", "Semicolon">>),
      K(<<"ALIGNOF", "LParen", "UNSIGNED", "LONG", "RParen", "Semicolon">>) }

SizeofCases ==
    {Case("sizeof", s, {<<"unary_expression", 0>>, <<"cast_expression", 0>>,
                        <<"expression_statement", 0>>}) : s \in SizeofRuns}

\* statements whose parts carry types of their own
TypedStatementRuns ==
    { <<IConst("1")>> \o K(<<"Semicolon">>),
      <<FConst("1.5")>> \o K(<<"Semicolon">>),
      K(<<"Semicolon">>),
      K(<<"RETURN">>) \o <<FConst("1.5")>> \o K(<<"Semicolon">>),
      K(<<"BREAK", "Semicolon">>),
      K(<<"CONTINUE", "Semicolon">>),
      K(<<"LBrace", "Semicolon", "RBrace">>),
      K(<<"LBrace", "RETURN">>) \o <<IConst("1")>> \o K(<<"Semicolon", "RBrace">>),
      K(<<"LBrace">>) \o <<IConst("1")>> \o K(<<"Semicolon">>) \o <<FConst("1.5")>>
          \o K(<<"Semicolon", "RBrace">>),
      K(<<"LBrace", "INT">>) \o <<Ident("x")>> \o K(<<"Semicolon">>) \o <<Ident("x")>>
          \o K(<<"Semicolon", "RBrace">>),
      K(<<"WHILE", "LParen">>) \o <<IConst("1")>> \o K(<<"RParen", "LBrace">>) \o <<FConst("1.5")>>
          \o K(<<"Semicolon", "RETURN">>) \o <<IConst("2")>> \o K(<<"Semicolon", "RBrace">>),
      K(<<"IF", "LParen">>) \o <<IConst("1")>> \o K(<<"RParen">>) \o <<IConst("1")>>
          \o K(<<"Semicolon">>),
      <<Ident("L")>> \o K(<<"Colon">>) \o <<IConst("1")>> \o K(<<"Semicolon">>),
      K(<<"DEFAULT", "Colon", "RETURN">>) \o <<StrLit("s")>> \o K(<<"Semicolon">>) }

TypedStatementCases ==
    {Case("typed_statement", s,
          {<<"statement", 0>>, <<"expression_statement", 0>>, <<"compound_statement", 0>>,
           <<"jump_statement", 0>>}) :
       s \in TypedStatementRuns}

\* declarations with TYPEDEF or a TypedefName token where a declaration specifier may stand,
\* and the same declarations without it
TypedefSpecifiers ==
    { K(<<"TYPEDEF", "INT">>), K(<<"INT", "TYPEDEF">>), K(<<"STATIC", "TYPEDEF", "INT">>),
      K(<<"TypedefName">>), K(<<"CONST", "TypedefName">>), K(<<"UNSIGNED", "TypedefName">>),
      K(<<"TYPEDEF", "TypedefName">>), K(<<"INT">>), K(<<"STATIC", "CONST", "INT">>) }

TypedefRuns ==
    {sp \o <<Ident("t")>> \o K(<<"Semicolon">>) : sp \in TypedefSpecifiers}
    \cup {K(<<"INT">>) \o <<Ident("f")>> \o K(<<"LParen", "RParen", "LBrace">>) \o sp
              \o <<Ident("t")>> \o K(<<"Semicolon", "RBrace">>) : sp \in TypedefSpecifiers}
    \cup {K(<<"INT">>) \o <<Ident("f")>> \o K(<<"LParen">>) \o sp
              \o <<Ident("t")>> \o K(<<"RParen", "Semicolon">>) : sp \in TypedefSpecifiers}
    \cup {K(<<"STRUCT", "LBrace">>) \o sp \o <<Ident("t")>> \o K(<<"Semicolon", "RBrace">>)
              \o <<Ident("v")>> \o K(<<"Semicolon">>) :
                sp \in {K(<<"TypedefName">>), K(<<"CONST", "TypedefName">>), K(<<"INT">>)}}

TypedefCases ==
    {Case("typedef", s, {<<"declaration", 0>>, <<"external_declaration", 0>>,
                         <<"declaration_specifiers", 0>>}) : s \in TypedefRuns}

DriverFamilies == {"driver", "typedef"}

\* the list rules, each with token runs holding one, two and three elements and the token
\* that ends the list
TypedListRuns ==
    << [rule |-> "argument_expression_list",
        runs |-> {<<IConst("1")>> \o K(<<"RParen">>),
                  <<IConst("1")>> \o K(<<"Comma">>) \o <<FConst("2.5")>> \o K(<<"RParen">>),
                  <<FConst("1.5")>> \o K(<<"Comma">>) \o <<IConst("2")>> \o K(<<"Comma">>)
                      \o <<StrLit("s")>> \o K(<<"RParen">>)}],
       [rule |-> "expression",
        runs |-> {<<IConst("1")>> \o K(<<"Semicolon">>),
                  <<FConst("1.5")>> \o K(<<"Semicolon">>),
                  <<IConst("1")>> \o K(<<"Comma">>) \o <<FConst("2.5")>> \o K(<<"Semicolon">>),
                  <<FConst("1.5")>> \o K(<<"Comma">>) \o <<IConst("2")>> \o K(<<"Semicolon">>),
                  <<Ident("a")>> \o K(<<"Assign">>) \o <<IConst("1")>> \o K(<<"Comma">>)
                      \o <<Ident("b")>> \o K(<<"Assign">>) \o <<FConst("4.0")>> \o K(<<"Comma">>)
                      \o <<Ident("c")>> \o K(<<"Assign">>) \o <<IConst("5")>> \o K(<<"Semicolon">>),
                  <<IConst("1")>> \o K(<<"Comma">>) \o <<IConst("2")>> \o K(<<"Comma">>)
                      \o <<FConst("3.5")>> \o K(<<"Semicolon">>)}],
       [rule |-> "init_declarator_list",
        runs |-> {<<Ident("a")>> \o K(<<"Semicolon">>),
                  <<Ident("a")>> \o K(<<"Comma", "Multi">>) \o <<Ident("b")>> \o K(<<"Semicolon">>)}],
       [rule |-> "struct_declarator_list",
        runs |-> {<<Ident("a")>> \o K(<<"Semicolon">>),
                  <<Ident("a")>> \o K(<<"Comma", "Multi">>) \o <<Ident("b")>> \o K(<<"Semicolon">>)}],
       [rule |-> "enumerator_list",
        runs |-> {<<Ident("A")>> \o K(<<"RBrace">>),
                  <<Ident("A")>> \o K(<<"Comma">>) \o <<Ident("B")>> \o K(<<"RBrace">>)}],
       [rule |-> "parameter_list",
        runs |-> {K(<<"INT">>) \o <<Ident("a")>> \o K(<<"RParen">>),
                  K(<<"INT">>) \o <<Ident("a")>> \o K(<<"Comma", "DOUBLE">>) \o <<Ident("b")>>
                      \o K(<<"RParen">>)}],
       [rule |-> "identifier_list",
        runs |-> {<<Ident("a")>> \o K(<<"RParen">>),
                  <<Ident("a")>> \o K(<<"Comma">>) \o <<Ident("b")>> \o K(<<"RParen">>)}],
       [rule |-> "type_qualifier_list",
        runs |-> {K(<<"CONST">>) \o <<Ident("x")>>,
                  K(<<"CONST", "VOLATILE">>) \o <<Ident("x")>>}],
       [rule |-> "designator_list",
        runs |-> {K(<<"Dot">>) \o <<Ident("a")>> \o K(<<"Assign">>),
                  K(<<"Dot">>) \o <<Ident("a")>> \o K(<<"LBracket">>) \o <<IConst("1")>>
                      \o K(<<"RBracket", "Assign">>)}],
       [rule |-> "initializer_list",
        runs |-> {<<IConst("1")>> \o K(<<"RBrace">>),
                  <<IConst("1")>> \o K(<<"Comma">>) \o <<FConst("2.5")>> \o K(<<"RBrace">>),
                  <<IConst("1")>> \o K(<<"Comma", "RBrace">>),
                  K(<<"Dot">>) \o <<Ident("a")>> \o K(<<"Assign">>) \o <<IConst("1")>> \o K(<<"RBrace">>),
                  K(<<"Dot">>) \o <<Ident("a")>> \o K(<<"Assign">>) \o <<IConst("1")>>
                      \o K(<<"Comma", "Dot">>) \o <<Ident("b")>> \o K(<<"Assign">>)
                      \o <<FConst("2.5")>> \o K(<<"RBrace">>)}],
       [rule |-> "block_item_list",
        runs |-> {<<IConst("1")>> \o K(<<"Semicolon", "RBrace">>),
                  <<IConst("1")>> \o K(<<"Semicolon">>) \o <<FConst("2.5")>>
                      \o K(<<"Semicolon", "RBrace">>)}],
       [rule |-> "declaration_list",
        runs |-> {K(<<"INT">>) \o <<Ident("a")>> \o K(<<"Semicolon", "LBrace">>),
                  K(<<"INT">>) \o <<Ident("a")>> \o K(<<"Semicolon", "DOUBLE">>) \o <<Ident("b")>>
                      \o K(<<"Semicolon", "LBrace">>)}] >>

TypedListCases ==
    UNION {{Case("typed_list", s, {<<TypedListRuns[i].rule, 0>>}) : s \in TypedListRuns[i].runs} :
             i \in 1..Len(TypedListRuns)}

\* declarators with a pointer prefix and array suffixes, as in int *a[3];
DeclaratorRuns ==
    { K(<<"Multi">>) \o <<Ident("a")>> \o K(<<"LBracket">>) \o <<IConst("3")>>
          \o K(<<"RBracket", "Semicolon">>),
      <<Ident("a")>> \o K(<<"LBracket">>) \o <<IConst("3")>> \o K(<<"RBracket", "Semicolon">>),
      <<Ident("a")>> \o K(<<"LBracket">>) \o <<IConst("3")>> \o K(<<"RBracket", "LBracket">>)
          \o <<IConst("3")>> \o K(<<"RBracket", "Semicolon">>),
      K(<<"Multi">>) \o <<Ident("a")>> \o K(<<"Semicolon">>),
      K(<<"Multi">>) \o <<Ident("f")>> \o K(<<"LParen", "INT">>) \o <<Ident("x")>>
          \o K(<<"RParen", "LBracket">>) \o <<IConst("3")>> \o K(<<"RBracket", "Semicolon">>) }

DeclaratorCases ==
    {Case("declarator", s, {<<"declarator", 0>>, <<"init_declarator_list", 0>>}) :
       s \in DeclaratorRuns}

\* the five enum forms, each followed by a declarator and ;
EnumForms ==
    { K(<<"ENUM", "LBrace">>) \o <<Ident("A")>> \o K(<<"RBrace">>),
      K(<<"ENUM", "LBrace">>) \o <<Ident("A")>> \o K(<<"Comma">>) \o <<Ident("B")>> \o K(<<"RBrace">>),
      K(<<"ENUM", "LBrace">>) \o <<Ident("A")>> \o K(<<"Comma", "RBrace">>),
      K(<<"ENUM">>) \o <<Ident("E")>> \o K(<<"LBrace">>) \o <<Ident("A")>> \o K(<<"RBrace">>),
      K(<<"ENUM">>) \o <<Ident("E")>> \o K(<<"LBrace">>) \o <<Ident("A")>> \o K(<<"Assign">>)
          \o <<IConst("1")>> \o K(<<"Comma", "RBrace">>),
      K(<<"ENUM">>) \o <<Ident("E")>> }

EnumCases ==
    {Case("enum", f \o <<Ident("v")>> \o K(<<"Semicolon">>),
          {<<"enum_specifier", 0>>, <<"type_specifier", 0>>, <<"declaration", 0>>}) : f \in EnumForms}

\* function declarator suffixes ( parameters , ... ) followed by ;
VariadicRuns ==
    { K(<<"LParen", "INT">>) \o <<Ident("a")>> \o K(<<"Comma", "ELLIPSIS", "RParen", "Semicolon">>),
      K(<<"LParen", "INT">>) \o <<Ident("a")>> \o K(<<"Comma", "DOUBLE">>) \o <<Ident("b")>>
          \o K(<<"Comma", "ELLIPSIS", "RParen", "Semicolon">>),
      K(<<"LParen", "CHAR", "Multi", "Comma", "ELLIPSIS", "RParen", "Semicolon">>) }

VariadicCases ==
    {Case("variadic", s, {<<"parameter_type_list", 1>>, <<"direct_declarator_post", 0>>,
                          <<"parameter_list", 1>>}) : s \in VariadicRuns}

\* the three struct / union forms, each followed by a declarator and ;
StructForms ==
    UNION {{ K(<<su, "LBrace", "INT">>) \o <<Ident("x")>> \o K(<<"Semicolon", "RBrace">>),
             K(<<su, "LBrace", "INT">>) \o <<Ident("x")>> \o K(<<"Semicolon", "DOUBLE">>)
                 \o <<Ident("y")>> \o K(<<"Semicolon", "RBrace">>),
             K(<<su>>) \o <<Ident("s")>> \o K(<<"LBrace", "INT">>) \o <<Ident("x")>>
                 \o K(<<"Semicolon", "RBrace">>),
             K(<<su>>) \o <<Ident("s")>> } : su \in {"STRUCT", "UNION"}}

StructCases ==
    {Case("struct", f \o <<Ident("v")>> \o K(<<"Semicolon">>),
          {<<"struct_or_union_specifier", 0>>, <<"type_specifier", 0>>, <<"declaration", 0>>}) :
       f \in StructForms}

\* 1 lo 2 hi 3 ;  and  1 hi 2 lo 3 ;  for operators hi, lo of two adjacent cascade levels
PrecedencePairs ==
    UNION {{<<i, hi, lo>> : hi \in CascadeLevels[i].ops, lo \in CascadeLevels[i + 1].ops} :
             i \in 1..(Len(CascadeLevels) - 1)}

PrecedenceCases ==
    UNION {{Case("precedence",
                 <<IConst("1"), Tok(p[3]), IConst("2"), Tok(p[2]), IConst("3"), Tok("Semicolon")>>,
                 {<<CascadeLevels[p[1] + 1].rule, 0>>, <<"logical_or_expression", 0>>}),
            Case("precedence",
                 <<IConst("1"), Tok(p[2]), IConst("2"), Tok(p[3]), IConst("3"), Tok("Semicolon")>>,
                 {<<CascadeLevels[p[1] + 1].rule, 0>>, <<"logical_or_expression", 0>>})} :
             p \in PrecedencePairs}

\* comma expressions of one to three assignment-expressions, some with a comma left over
CommaElements ==
    {<<IConst("1")>>, <<FConst("2.5")>>, <<Ident("a"), Tok("Assign"), IConst("1")>>}

CommaRuns ==
    {e \o K(<<"Semicolon">>) : e \in CommaElements}
        \cup {e \o K(<<"Comma">>) \o f \o K(<<"Semicolon">>) : e, f \in CommaElements}
        \cup {e \o K(<<"Comma">>) \o f \o K(<<"Comma">>) \o g \o K(<<"Semicolon">>) :
                 e, f, g \in CommaElements}
        \cup {e \o K(<<"Comma", "Semicolon">>) : e \in CommaElements}
        \cup {<<Ident("a")>> \o K(<<"Assign">>) \o <<IConst("1")>> \o K(<<"Comma">>)
                 \o <<Ident("b")>> \o K(<<"Assign">>) \o <<FConst("4.0")>> \o K(<<"Comma">>)
                 \o <<Ident("c")>> \o K(<<"Assign">>) \o <<IConst("5")>> \o K(<<"Semicolon">>)}

CommaCases == {Case("comma", ts, {<<"expression", 0>>}) : ts \in CommaRuns}

Cases == DriverCases \cup CascadeCases \cup CastCases \cup ListCases \cup StatementCases
             \cup DeclarationCases \cup TernaryCases \cup SingleCases
             \cup AssignmentCases \cup SizeofCases \cup TypedStatementCases \cup TypedefCases \cup TypedListCases \cup DeclaratorCases \cup EnumCases \cup VariadicCases \cup StructCases \cup PrecedenceCases
             \cup CommaCases

SourceLabels == {"a.c", "b.c"}

DriverMessage(name) == "Parser drive fails to parse the file " \o name

Pending == [kind |-> "pending", node |-> NoNode, pos |-> 0, msg |-> ""]

\* the greatest position a call of the case starts from, the token count at least
LastStart(c) ==
    LET ps == {p[2] : p \in c.probes} \cup {Len(c.toks)}
    IN  CHOOSE x \in ps : \A y \in ps : y <= x

\* what every grammar function returns at every position 0 .. LastStart(c) of the case
AllResults(c) ==
    Rows(c.toks, 0) \o [j \in 1..(LastStart(c) - Len(c.toks)) |-> Rows(c.toks, Len(c.toks) + j)[1]]

(***************************************************************************)
(* The state machine.                                                      *)
(***************************************************************************)
Init ==
    \E c \in Cases, n \in SourceLabels :
        /\ toks = c.toks
        /\ family = c.family
        /\ probes = c.probes
        /\ c_src_name = IF c.family = "driver" THEN n ELSE "a.c"
        /\ pc = "ready"
        /\ tu = [node |-> NoNode, pos |-> 0]
        /\ rule = ""
        /\ start = 0
        /\ out = Pending
        /\ results = AllResults(c)

\* parser_driver calls p_translation_unit(&toks, 0): check_pos, then the empty root node
TranslationUnitEnter ==
    /\ pc = "ready"
    /\ family \in DriverFamilies
    /\ IF IsOk(check_pos(0, Len(toks)))
       THEN /\ tu' = [node |-> ParseNode_new(NT("TranslationUnit")), pos |-> 0]
            /\ pc' = "tu_loop"
            /\ out' = out
       ELSE /\ out' = check_pos(0, Len(toks))
            /\ pc' = "done"
            /\ tu' = tu
    /\ UNCHANGED <<toks, c_src_name, family, probes, rule, start, results>>

\* an iteration that keeps the external declaration but not the position it returned
TranslationUnitStep_stuck(r) ==
    IF IsOk(r)
    THEN /\ tu' = [node |-> AdoptT(tu.node, r.node), pos |-> tu.pos]
         /\ UNCHANGED <<pc, out>>
    ELSE /\ out' = r
         /\ pc' = "done"
         /\ tu' = tu

\* one iteration of the loop, r the outcome of p_external_declaration(toks, pos)?
TranslationUnitStep(r) ==
    IF IsOk(r)
    THEN /\ tu' = [node |-> AdoptT(tu.node, r.node), pos |-> r.pos]
         /\ UNCHANGED <<pc, out>>
    ELSE /\ out' = r
         /\ pc' = "done"
         /\ tu' = tu

TranslationUnitIterate ==
    /\ pc = "tu_loop"
    /\ tu.pos < Len(toks)
    /\ TranslationUnitStep(Returned("external_declaration", tu.pos))
    /\ UNCHANGED <<toks, c_src_name, family, probes, rule, start, results>>

\* if pos >= toks.len() { break }; return Ok((cur_node, pos)); then the driver's test
DriverReturn ==
    /\ pc = "tu_loop"
    /\ tu.pos >= Len(toks)
    /\ out' = IF tu.pos = Len(toks) THEN Ok(tu.node, tu.pos) ELSE Err(DriverMessage(c_src_name))
    /\ pc' = "done"
    /\ UNCHANGED <<toks, c_src_name, family, probes, tu, rule, start, results>>

\* a direct call of one grammar function at one position
CallRule ==
    /\ pc = "ready"
    /\ \E p \in probes :
        /\ rule' = p[1]
        /\ start' = p[2]
        /\ out' = Returned(p[1], p[2])
    /\ pc' = "called"
    /\ UNCHANGED <<toks, c_src_name, family, probes, tu, results>>

Next == TranslationUnitEnter \/ TranslationUnitIterate \/ DriverReturn \/ CallRule

Spec == Init /\ [][Next]_vars

\* parser_driver is sequential code that runs to its return: a step that can be taken is taken
LiveSpec == Spec /\ WF_vars(Next)

(***************************************************************************)
(* Properties.                                                             *)
(***************************************************************************)
RECURSIVE Core(_), LeafOf(_), LeftNested(_, _, _), WellTyped(_), FoldAccepts(_, _)
RECURSIVE EveryNodeTyped(_), NodesOf(_), IdentityDown(_), TypeBases(_)

\* the node under the single-child wrappers of the precedence chain
Core(n) == IF n.entry.t = "BinaryExpression" \/ Len(n.child) # 1 THEN n ELSE Core(n.child[1])
LeafOf(n) == IF Len(n.child) = 1 THEN LeafOf(n.child[1]) ELSE n

\* operand { op operand } ; has 2k + 2 tokens for k operators
NumOps(ts) == (Len(ts) - 2) \div 2

\* n is ((o1 op1 o2) op2 o3) .. opk o(k+1) over the first 2k + 1 tokens of ts
LeftNested(n, ts, k) ==
    /\ n.entry.t = "BinaryExpression"
    /\ n.entry.tok = ts[2 * k]
    /\ Len(n.child) = 2
    /\ LeafOf(n.child[2]).entry.t = "Constant"
    /\ LeafOf(n.child[2]).entry.s = ts[2 * k + 1].v
    /\ IF k = 1
       THEN LeafOf(n.child[1]).entry.t = "Constant" /\ LeafOf(n.child[1]).entry.s = ts[1].v
       ELSE LeftNested(n.child[1], ts, k - 1)

\* every BinaryExpression node below n carries the oracle's result for its two children
WellTyped(n) ==
    /\ n.entry.t = "BinaryExpression" =>
          /\ Len(n.child) = 2
          /\ judge_combine_type(n.child[1].type_exp, n.child[2].type_exp, n.entry.tok).accepted
          /\ n.type_exp = judge_combine_type(n.child[1].type_exp, n.child[2].type_exp, n.entry.tok).type
    /\ \A i \in 1..Len(n.child) : WellTyped(n.child[i])

OperandType(ts, i) == p_constant(ts, i - 1).node.type_exp
FoldType(ts, k) ==
    LET RECURSIVE T(_)
        T(i) == IF i = 0 THEN OperandType(ts, 1)
                ELSE judge_combine_type(T(i - 1), OperandType(ts, 2 * i + 1), ts[2 * i]).type
    IN  T(k)
\* the oracle accepts each of the first k combinations of the chain, left to right
FoldAccepts(ts, k) ==
    k = 0 \/ ( /\ FoldAccepts(ts, k - 1)
               /\ judge_combine_type(FoldType(ts, k - 1), OperandType(ts, 2 * k + 1), ts[2 * k]).accepted )

\* the pieces of ( type-name ) operand ; as a correct cast rule would see them
CastTypeName(ts) == Parse("type_name", ts, 1)
CastOperand(ts) == Parse("cast_expression", ts, CastTypeName(ts).pos + 1)
CastParses(ts) ==
    /\ IsOk(CastTypeName(ts))
    /\ IsOk(check_tok(CastTypeName(ts).pos, ts, Tok("RParen")))
    /\ IsOk(CastOperand(ts))
CastJudged(ts) == judge_cast(CastTypeName(ts).node.type_exp, CastOperand(ts).node.type_exp)
WholeCastCalled == pc = "called" /\ family = "cast" /\ rule = "cast_expression" /\ start = 0

\* the pieces of condition ? true-branch : false-branch, by the tokens themselves
QuestionAt(ts) == CHOOSE i \in 1..Len(ts) : ts[i].k = "QuestionMark"
TrueBranchToken(ts) == ts[QuestionAt(ts) + 1]
FalseBranchToken(ts) == ts[QuestionAt(ts) + 3]
LiteralType(tok) ==
    IF tok.k = "IConstant" THEN new_val(BT("Long"))
    ELSE IF tok.k = "FConstant" THEN new_val(BT("Double"))
    ELSE TypeExpression_new
LiteralBranches(ts) == TrueBranchToken(ts).k \in {"IConstant", "FConstant"}
ConditionType(ts) == Parse("logical_or_expression", ts, 0).node.type_exp
AdmissibleCondition(ts) ==
    \E b \in {"Int", "Bool", "Long", "Signed", "Unsigned", "Char"} :
        judge_type_same(ConditionType(ts), new_val(BT(b)))
TernaryCalled == pc = "called" /\ family = "ternary" /\ rule = "conditional_expression" /\ start = 0

\* n and every node below it carry a type other than the one ParseNode::new gives
EveryNodeTyped(n) ==
    /\ n.type_exp # TypeExpression_new
    /\ \A i \in 1..Len(n.child) : EveryNodeTyped(n.child[i])
\* the nodes of the tree under n, n included
NodesOf(n) == {n} \cup UNION {NodesOf(n.child[i]) : i \in 1..Len(n.child)}

\* one operand and what follows it
SingleOperand(ts) ==
    CHOOSE o \in SingleOperands : Len(o) <= Len(ts) /\ Len(ts) <= Len(o) + 1 /\ SubSeq(ts, 1, Len(o)) = o
SingleHasTail(ts) == Len(ts) = Len(SingleOperand(ts)) + 1
SingleCalled == pc = "called" /\ family = "single"
InChain(r) == \E i \in 1..Len(SingleChainRules) : SingleChainRules[i] = r
\* from n down to the unary-expression node every node has one child and that child's type
IdentityDown(n) ==
    \/ n.entry.t = "UnaryExpression"
    \/ /\ Len(n.child) = 1
       /\ n.type_exp = n.child[1].type_exp
       /\ IdentityDown(n.child[1])

\* the calls p_assignment_expression makes from start, each as a call of its own
AsgLeft(ts, p) == Parse("unary_expression", ts, p)
AsgOperator(ts, p) == p_assignment_operator(ts, AsgLeft(ts, p).pos)
AsgRight(ts, p) == Parse("assignment_expression", ts, AsgOperator(ts, p).pos)
AsgAllThree(ts, p) ==
    IsOk(AsgLeft(ts, p)) /\ IsOk(AsgOperator(ts, p)) /\ IsOk(AsgRight(ts, p))
AsgConditional(ts, p) == Parse("conditional_expression", ts, p)
AssignmentCalled == pc = "called" /\ rule = "assignment_expression"

\* type u can be read back from type t: u is a child of t, or t is u's specifiers behind one tag
TypeWithin(u, t) ==
    \/ \E i \in 1..Len(t.child) : t.child[i] = u
    \/ Len(t.val) = Len(u.val) + 1 /\ SubSeq(t.val, 2, Len(t.val)) = u.val /\ u.val # <<>>

\* C1: parser_driver returns a parse tree only when the translation-unit loop consumed every
\* token; a valid external declaration followed by tokens that do not form another one
\* never yields Ok.
C1_OkOnlyWhenAllConsumed ==
    (pc = "done" /\ IsOk(out)) => (out.pos = Len(toks) /\ ~HasTrailingGarbage(toks))

C1_Witness ==
    /\ pc = "done" /\ HasTrailingGarbage(toks) /\ ~IsOk(out)
    /\ Len(tu.node.child) >= 1

\* C2: on a valid external declaration followed by trailing garbage, the failure returned is
\* the driver's own did-not-consume-all-tokens error naming the source label c_src_name.
C2_DriverOwnError ==
    (pc = "done" /\ HasTrailingGarbage(toks)) => out = Err(DriverMessage(c_src_name))

\* C3: every call ends in success or failure; no token at a position >= the token count is
\* ever read, so no call aborts.
C3_NeverAborts ==
    pc \in {"done", "called"} => out.kind \in {"ok", "err"}

\* C4: a grammar function that succeeds from position p on n tokens returns q with p < q <= n.
C4_StrictProgress ==
    (pc = "called" /\ IsOk(out)) => (start < out.pos /\ out.pos <= Len(toks))

\* C5: at every cascade level a chain of same-level operators is grouped to the left: the
\* outer BinaryExpression carries the last operator, its first child is the BinaryExpression
\* of the operators before it and its second child is the last operand.
C5_LeftAssociative ==
    (pc = "called" /\ family = "cascade" /\ IsOk(out)) =>
        /\ out.pos = Len(toks) - 1
        /\ LeftNested(Core(out.node), toks, NumOps(toks))

C5_Witness ==
    /\ pc = "called" /\ family = "cascade" /\ IsOk(out)
    /\ rule = "logical_or_expression" /\ NumOps(toks) = 2
    /\ LeftNested(Core(out.node), toks, 2)

\* C6: when the oracle's cast judgment accepts, p_cast_expression succeeds on
\* ( type-name ) operand, consumes the whole cast, and the node's type is the target type.
C6_AcceptedCastSucceeds ==
    (WholeCastCalled /\ CastParses(toks) /\ CastJudged(toks)) =>
        /\ IsOk(out)
        /\ out.pos = Len(toks) - 1
        /\ out.node.type_exp = CastTypeName(toks).node.type_exp

\* C7: a cast the oracle rejects never yields a successful cast-expression node.
C7_RejectedCastFails ==
    (WholeCastCalled /\ CastParses(toks) /\ ~CastJudged(toks)) => IsErr(out)

C7_Witness ==
    WholeCastCalled /\ CastParses(toks) /\ ~CastJudged(toks) /\ IsErr(out)

\* C8: on f ( a , b , ) the argument list succeeds with exactly two children and returns the
\* position of the trailing comma itself.
C8_TrailingCommaPosition ==
    (pc = "called" /\ toks = CallWithTrailingComma /\ rule = "argument_expression_list") =>
        (IsOk(out) /\ Len(out.node.child) = 2 /\ out.pos = 5)

\* C9: every comma-separated list rule, when the item after a separator fails, succeeds with
\* the items so far and returns exactly the index of that separator.
C9_SeparatorIndex ==
    (pc = "called" /\ family = "list") => (IsOk(out) /\ out.pos = Len(toks) - 2)

\* C10: every BinaryExpression node's type is the oracle's combine result on the accumulated
\* left type, the right type and the operator; when the oracle rejects a combination the
\* call fails.
C10_CombineTyped ==
    /\ (pc \in {"called", "done"} /\ IsOk(out)) => WellTyped(out.node)
    /\ (pc = "called" /\ family = "cascade" /\ ~FoldAccepts(toks, NumOps(toks))) => IsErr(out)

C10_Witness ==
    /\ pc = "called" /\ family = "cascade" /\ IsOk(out)
    /\ Core(out.node).entry.t = "BinaryExpression"
    /\ Core(out.node).type_exp \notin {Core(out.node).child[1].type_exp, Core(out.node).child[2].type_exp}

\* C11: a ternary whose two branches have types the oracle does not judge equal returns a
\* failure from p_conditional_expression; 1 ? 2 : 3.0 (long against double) is such a call.
C11_MismatchReturnsFailure ==
    ( /\ TernaryCalled /\ AdmissibleCondition(toks) /\ LiteralBranches(toks)
      /\ ~judge_type_same(LiteralType(TrueBranchToken(toks)), LiteralType(FalseBranchToken(toks))) )
        => IsErr(out)

\* C12: a ternary with an admissible condition and type-equal branches succeeds, consumes the
\* three operands, and the node's type is the false branch's type; 1 ? 2 : 3 gives long.
C12_MatchSucceeds ==
    ( /\ TernaryCalled /\ AdmissibleCondition(toks) /\ LiteralBranches(toks)
      /\ judge_type_same(LiteralType(TrueBranchToken(toks)), LiteralType(FalseBranchToken(toks))) )
        => /\ IsOk(out)
           /\ out.pos = QuestionAt(toks) + 3
           /\ out.node.type_exp = LiteralType(FalseBranchToken(toks))

\* C13: when ? follows a condition whose type is not type-equal to int, bool, long, signed,
\* unsigned or char, p_conditional_expression fails with the condition's own error, whatever
\* the branches are: the check comes before either branch is parsed.
C13_ConditionCheckedFirst ==
    (TernaryCalled /\ ~AdmissibleCondition(toks)) =>
        out = Err("Conditional Expression doesn't have logical expression")

C13_Witness ==
    /\ TernaryCalled /\ ~AdmissibleCondition(toks)
    /\ TrueBranchToken(toks).k = "RParen"
    /\ ConditionType(toks) = new_val(BT("Double"))
    /\ out = Err("Conditional Expression doesn't have logical expression")

\* C14: every node of a tree returned by a successful parse, the returned node and all its
\* descendants of every kind, carries an assigned type, never the constructor's default.
C14_EveryNodeTyped ==
    (pc \in {"called", "done"} /\ IsOk(out)) => EveryNodeTyped(out.node)

\* C15: in every cascade function from cast-expression up to assignment-expression and
\* constant-expression, one operand with no operator after it gives a node with exactly one
\* child and that child's type, unchanged all the way down to the operand.
C15_IdentityPropagation ==
    (SingleCalled /\ InChain(rule)) =>
        /\ SingleHasTail(toks) => IsOk(out)
        /\ IsOk(out) =>
              /\ out.pos = Len(SingleOperand(toks))
              /\ Len(out.node.child) = 1
              /\ out.node.type_exp = out.node.child[1].type_exp
              /\ out.node.entry.t # "UnaryExpression"
              /\ IdentityDown(out.node)

C15_Witness ==
    /\ SingleCalled /\ rule = "assignment_expression" /\ IsOk(out)
    /\ toks = <<FConst("1.5"), Tok("Semicolon")>>
    /\ out.node.type_exp = new_val(BT("Double"))
    /\ out.node.child[1].entry.t = "ConditionalExpression"

\* C16: an integer constant token gives a Constant node of type long, never int, a floating
\* constant gives double, and the enclosing primary-expression node has the same type.
C16_LiteralTyping ==
    (SingleCalled /\ rule \in {"constant", "primary_expression"}
        /\ toks[1].k \in {"IConstant", "FConstant"}) =>
        /\ IsOk(out)
        /\ out.pos = 1
        /\ LeafOf(out.node).entry.t = "Constant"
        /\ LeafOf(out.node).entry.s = toks[1].v
        /\ LeafOf(out.node).type_exp =
              (IF toks[1].k = "IConstant" THEN new_val(BT("Long")) ELSE new_val(BT("Double")))
        /\ out.node.type_exp = LeafOf(out.node).type_exp
        /\ rule = "primary_expression" =>
              (out.node.entry.t = "PrimaryExpression" /\ Len(out.node.child) = 1)

C16_Witness ==
    /\ SingleCalled /\ rule = "primary_expression" /\ toks = <<IConst("1")>>
    /\ IsOk(out) /\ out.node.type_exp = new_val(BT("Long"))
    /\ out.node.child[1].entry.t = "Constant"

\* C17: p_assignment_expression on any input: when unary-expression, assignment-operator and
\* the nested assignment-expression parse in sequence the node has these three children and
\* the oracle's implicit-conversion type of (left, right), and fails when the oracle fails;
\* in every other case the result is that of p_conditional_expression from the start
\* position, wrapped in a one-child node of the same type.
C17_AssignmentOrConditional ==
    AssignmentCalled =>
        IF AsgAllThree(toks, start)
        THEN IF implicit_type_cast(AsgLeft(toks, start).node.type_exp,
                                   AsgRight(toks, start).node.type_exp).accepted
             THEN /\ IsOk(out)
                  /\ out.pos = AsgRight(toks, start).pos
                  /\ out.node.entry.t = "AssignmentExpression"
                  /\ out.node.child = << AsgLeft(toks, start).node, AsgOperator(toks, start).node,
                                         AsgRight(toks, start).node >>
                  /\ out.node.type_exp =
                        implicit_type_cast(AsgLeft(toks, start).node.type_exp,
                                           AsgRight(toks, start).node.type_exp).type
             ELSE IsErr(out)
        ELSE IF IsOk(AsgConditional(toks, start))
             THEN /\ IsOk(out)
                  /\ out.pos = AsgConditional(toks, start).pos
                  /\ out.node.entry.t = "AssignmentExpression"
                  /\ out.node.child = << AsgConditional(toks, start).node >>
                  /\ out.node.type_exp = AsgConditional(toks, start).node.type_exp
             ELSE out = AsgConditional(toks, start)

\* C18: the unary-expression node of & operand has a pointer type from which the operand's
\* type can be read back; the node of * operand has the pointer type tagged with the
\* void-pointer marker whatever the operand is.
C18_AddressAndDereference ==
    (SingleCalled /\ rule = "unary_expression" /\ IsOk(out)) =>
        /\ toks[1].k = "SingleAnd" =>
              /\ out.node.type_exp.val[1] = BT("Pointer")
              /\ TypeWithin(out.node.child[2].type_exp, out.node.type_exp)
        /\ toks[1].k = "Multi" =>
              out.node.type_exp = [val |-> <<BT("Pointer"), BT("VoidPointer")>>, child |-> <<>>]

\* C19: every well-formed sizeof unary-expression, sizeof ( type-name ) and
\* _Alignof ( type-name ) parses as a unary-expression of the size type, whatever the operand,
\* and consumes the whole construct, the closing parenthesis included.
C19_SizeofAlignof ==
    (pc = "called" /\ family = "sizeof" /\ rule = "unary_expression") =>
        /\ IsOk(out)
        /\ out.node.entry.t = "UnaryExpression"
        /\ out.node.type_exp = new_val(BT("SizeT"))
        /\ out.pos = Len(toks) - 1

StatementKinds ==
    {"LabeledStatement", "CompoundStatement", "ExpressionStatement", "SelectionStatement",
     "IterationStatement", "JumpStatement"}
\* the statement nodes of the tree a successful call returned
StatementNodes == {n \in NodesOf(out.node) : n.entry.t \in StatementKinds}
StatementCalled ==
    pc = "called" /\ family \in {"statement", "typed_statement"} /\ IsOk(out)
IsReturnExpr(n) == n.entry.t = "JumpStatement" /\ n.entry.s = "return" /\ Len(n.child) = 1
NoneMarked(n) == n.type_exp = new_val(BT("NoneExpression"))

\* C20 (as stated): every statement node of a successful parse has the none marker as its
\* type, except `return <expr> ;`, whose type is the type of the returned expression.
C20_StatementsUntyped ==
    StatementCalled =>
        \A n \in StatementNodes :
            IF IsReturnExpr(n) THEN n.type_exp = n.child[1].type_exp ELSE NoneMarked(n)

\* C20 (amended): labeled, selection and iteration statements, `;`, `{ }` and the jumps
\* without an expression have the none marker; `return <expr> ;` and `<expr> ;` have the
\* type of their expression, and a compound statement with items the type of its item list.
C20_StatementTypes ==
    StatementCalled =>
        \A n \in StatementNodes :
            IF n.entry.t \in {"JumpStatement", "ExpressionStatement", "CompoundStatement"}
               /\ n.child # <<>>
            THEN Len(n.child) = 1 /\ n.type_exp = n.child[1].type_exp
            ELSE NoneMarked(n)

C20_Witness ==
    /\ StatementCalled /\ rule = "statement" /\ start = 0
    /\ \E n \in StatementNodes : n.entry.t = "IterationStatement" /\ NoneMarked(n)
    /\ \E n \in StatementNodes : IsReturnExpr(n) /\ n.type_exp = new_val(BT("Long"))
    /\ \E n \in StatementNodes :
           /\ n.entry.t = "ExpressionStatement" /\ n.child # <<>>
           /\ n.type_exp = new_val(BT("Double"))
    /\ \E n \in StatementNodes :
           n.entry.t = "CompoundStatement" /\ n.child # <<>> /\ ~NoneMarked(n)

TypedefToks == {"TYPEDEF", "TypedefName"}
HasTypedef(ts) == \E i \in 1..Len(ts) : ts[i].k \in TypedefToks
\* no node of the tree under n holds a typedef token or a typedef type
TypedefFree(n) ==
    \A x \in NodesOf(n) :
        /\ x.entry.tok.k \notin TypedefToks
        /\ \A i \in 1..Len(x.type_exp.val) : x.type_exp.val[i].b # "Typedef"

\* C21: a TYPEDEF keyword or a TypedefName token where a declaration specifier is expected
\* makes the enclosing declaration, the external declaration and parser_driver fail, and no
\* tree returned by any call holds a typedef.
C21_TypedefRejected ==
    /\ (family = "typedef" /\ HasTypedef(toks)) =>
           /\ pc = "done" => IsErr(out)
           /\ (pc = "called" /\ rule \in {"declaration", "external_declaration"}) => IsErr(out)
    /\ (pc \in {"called", "done"} /\ IsOk(out)) => TypedefFree(out.node)
    /\ TypedefFree(tu.node)

C21_Witness ==
    /\ family = "typedef" /\ pc = "done" /\ IsErr(out)
    /\ toks[1].k = "INT" /\ toks[2].k = "IDENTIFIER" /\ HasTypedef(toks)
    /\ out.msg = "Expected ;"

\* the elements of a list node: its children other than the designations in front of them
ListElements(n) == SelectSeq(n.child, LAMBDA c : c.entry.t # "Designation")
ElementTypes(n) == [i \in 1..Len(ListElements(n)) |-> ListElements(n)[i].type_exp]
\* the composite type whose children are the element types in source order
CompositeOf(n) == [val |-> <<>>, child |-> ElementTypes(n)]
FlatOrComposite(n) ==
    IF Len(ListElements(n)) = 1 THEN n.type_exp = ListElements(n)[1].type_exp
    ELSE n.type_exp = CompositeOf(n)
ListCalled == pc = "called" /\ family = "typed_list" /\ IsOk(out)
NeverFlattened == {"enumerator_list", "parameter_list", "type_qualifier_list"}
CommaFollows == out.pos < Len(toks) /\ At(toks, out.pos).k = "Comma"

\* C22 (as stated): every list node has its single element's type when it has exactly one
\* element, and otherwise the composite type whose children are its elements' types in order.
C22_FlatOrComposite == ListCalled => FlatOrComposite(out.node)

\* C22 (amended): argument, init-declarator, struct-declarator, identifier, designator,
\* block-item and declaration lists have the single element's type or else the composite of
\* the element types; parameter, enumerator and type-qualifier lists always have the
\* composite, also for one element; an initializer list has the composite also when a
\* comma follows its single element; a comma expression has its rightmost element's type.
C22_ListTypesByRule ==
    ListCalled =>
        CASE rule \in NeverFlattened -> out.node.type_exp = CompositeOf(out.node)
          [] rule = "expression" ->
                out.node.type_exp = ListElements(out.node)[Len(ListElements(out.node))].type_exp
          [] rule = "initializer_list" ->
                IF CommaFollows THEN out.node.type_exp = CompositeOf(out.node)
                ELSE FlatOrComposite(out.node)
          [] OTHER -> FlatOrComposite(out.node)

C22_Witness ==
    /\ ListCalled /\ rule = "parameter_list"
    /\ Len(out.node.child) = 1
    /\ out.node.type_exp = [val |-> <<>>, child |-> <<out.node.child[1].type_exp>>]
    /\ out.node.type_exp # out.node.child[1].type_exp

\* every base type named anywhere in the type expression t
TypeBases(t) ==
    {t.val[i] : i \in 1..Len(t.val)} \cup UNION {TypeBases(t.child[i]) : i \in 1..Len(t.child)}
HasToken(ts, k) == \E i \in 1..Len(ts) : ts[i].k = k

\* C23: a declarator such as `* a [ 3 ]` of int *a[3]; parses, and its type holds the pointer
\* component of the `*` prefix and an array-of-length-3 component for the `[3]` suffix.
C23_DeclaratorSuffixes ==
    (pc = "called" /\ family = "declarator" /\ rule = "declarator") =>
        /\ IsOk(out)
        /\ out.pos = Len(toks) - 1
        /\ HasToken(toks, "Multi") => BT("Pointer") \in TypeBases(out.node.type_exp)
        /\ HasToken(toks, "LBracket") => BTArray(3) \in TypeBases(out.node.type_exp)

ReturnCalled ==
    /\ pc = "called" /\ family \in {"statement", "typed_statement"}
    /\ rule = "jump_statement" /\ start = 0 /\ toks[1].k = "RETURN"

\* C24: p_jump_statement accepts `return expression` only when `;` follows the expression: a
\* successful call returns the position one past a semicolon that is in the token stream.
C24_ReturnNeedsSemicolon ==
    (ReturnCalled /\ IsOk(out)) =>
        /\ out.pos <= Len(toks)
        /\ toks[out.pos].k = "Semicolon"

\* C25: p_enum_specifier accepts enum { list }, enum { list , }, enum IDENT { list },
\* enum IDENT { list , } and enum IDENT, and returns the position just past the form.
C25_EnumForms ==
    (pc = "called" /\ family = "enum" /\ rule = "enum_specifier") =>
        /\ IsOk(out)
        /\ out.pos = Len(toks) - 2

\* C26: on parameters followed by `, ...` p_parameter_type_list succeeds with the node marked
\* variadic and returns the position just past the ELLIPSIS, so that the function declarator
\* suffix ( parameters , ... ) parses with its closing parenthesis matched.
C26_VariadicParameters ==
    (pc = "called" /\ family = "variadic") =>
        /\ rule = "parameter_type_list" =>
              /\ IsOk(out)
              /\ out.node.entry.s = "true"
              /\ BT("VaList") \in TypeBases(out.node.type_exp)
              /\ out.pos = Len(toks) - 2
        /\ rule = "direct_declarator_post" => (IsOk(out) /\ out.pos = Len(toks) - 1)

\* C27: p_struct_or_union_specifier accepts struct { members }, struct IDENT { members } and
\* struct IDENT, with `}` closing the member list, and returns the position just past the form.
C27_StructForms ==
    (pc = "called" /\ family = "struct" /\ rule = "struct_or_union_specifier") =>
        /\ IsOk(out)
        /\ out.pos = Len(toks) - 2

\* the cascade level an operator token belongs to, 1 the tightest
LevelOf(k) == CHOOSE i \in 1..Len(CascadeLevels) : k \in CascadeLevels[i].ops
IsOperand(n, tok) == LeafOf(n).entry.t = "Constant" /\ LeafOf(n).entry.s = tok.v
\* under its wrappers n is the BinaryExpression of op over the operands l and r
BinaryOver(n, op, l, r) ==
    /\ Core(n).entry.t = "BinaryExpression"
    /\ Core(n).entry.tok = op
    /\ Len(Core(n).child) = 2
    /\ IsOperand(Core(n).child[1], l)
    /\ IsOperand(Core(n).child[2], r)
PrecedenceCalled == pc = "called" /\ family = "precedence" /\ IsOk(out)

\* C28: an operator of a tighter cascade level binds before one of the next looser level: in
\* 1 lo 2 hi 3 the node of lo has 1 as left operand and the subtree of 2 hi 3 as right operand,
\* in 1 hi 2 lo 3 the node of lo has the subtree of 1 hi 2 as left operand and 3 as right.
C28_PrecedenceNesting ==
    PrecedenceCalled =>
        /\ out.pos = 5
        /\ Core(out.node).entry.t = "BinaryExpression"
        /\ Len(Core(out.node).child) = 2
        /\ IF LevelOf(toks[2].k) > LevelOf(toks[4].k)
           THEN /\ Core(out.node).entry.tok = toks[2]
                /\ IsOperand(Core(out.node).child[1], toks[1])
                /\ BinaryOver(Core(out.node).child[2], toks[4], toks[3], toks[5])
           ELSE /\ Core(out.node).entry.tok = toks[4]
                /\ BinaryOver(Core(out.node).child[1], toks[2], toks[1], toks[3])
                /\ IsOperand(Core(out.node).child[2], toks[5])

C28_Witness ==
    /\ PrecedenceCalled /\ rule = "additive_expression"
    /\ toks[2].k = "Plus" /\ toks[4].k = "Multi"
    /\ Core(out.node).entry.tok.k = "Plus"
    /\ BinaryOver(Core(out.node).child[2], toks[4], toks[3], toks[5])

\* the loop of p_translation_unit has run once per external declaration kept so far
InLoop == pc = "tu_loop"
LoopBounded == InLoop => (Len(tu.node.child) <= tu.pos /\ tu.pos <= Len(toks))
LoopAdvances == (InLoop /\ tu' # tu) => (tu'.pos > tu.pos /\ Len(tu'.node.child) = Len(tu.node.child) + 1)
LoopResult == (pc = "done" /\ IsOk(out)) => (out.pos = Len(toks) /\ out.pos = tu.pos)
\* p_external_declaration called at any position of toks: a success ends further on, inside toks
ExternalDeclarationAdvances ==
    \A p \in 0..(Len(results) - 1) :
        LET r == Returned("external_declaration", p)
        IN  IsOk(r) => (p < r.pos /\ r.pos <= Len(toks))

\* C29: the translation-unit loop terminates on every token sequence: each successful
\* p_external_declaration returns a position strictly greater than the one it was given, so
\* the loop runs at most once per token; it ends with a failure or with the position equal to
\* the token count, and a successful result never has another position.
C29_LoopTerminates ==
    /\ []ExternalDeclarationAdvances
    /\ []LoopBounded
    /\ [][LoopAdvances]_vars
    /\ []LoopResult
    /\ <>(pc \in {"done", "called"})

C29_Witness ==
    /\ pc = "done" /\ IsOk(out)
    /\ Len(tu.node.child) = 2 /\ tu.pos = Len(toks) /\ Len(toks) > 2

\* p_expression called on a comma expression
CommaCalled == pc = "called" /\ family = "comma" /\ rule = "expression"
\* the positions where an assignment-expression follows a comma
AfterComma ==
    {i \in 1..(Len(toks) - 1) : toks[i].k = "Comma" /\ toks[i + 1].k # "Semicolon"}
RightmostStart ==
    IF AfterComma = {} THEN start ELSE CHOOSE i \in AfterComma : \A j \in AfterComma : j <= i

\* C30: a comma expression of two or more assignment-expressions has the type of the rightmost
\* one (for a = 1, b = 4.0, c = 5 the type of c = 5), and a comma expression of exactly one
\* assignment-expression has the type of that one.
C30_RightmostType ==
    CommaCalled =>
        LET a == Returned("assignment_expression", RightmostStart)
        IN  /\ IsOk(out) /\ IsOk(a)
            /\ Len(out.node.child) = Cardinality(AfterComma) + 1
            /\ out.node.child[Len(out.node.child)] = a.node
            /\ out.node.type_exp = a.node.type_exp

C30_Witness ==
    /\ CommaCalled /\ IsOk(out)
    /\ Len(out.node.child) = 3 /\ RightmostStart = 8
    /\ toks[7].k = "FConstant"
    /\ out.node.type_exp = out.node.child[3].type_exp
    /\ out.node.type_exp # out.node.child[2].type_exp


====
